---- MODULE Spec2Model ----
(***************************************************************************)
(* Verification model of the DNS_Protect detection pipeline.               *)
(*                                                                         *)
(* The components are modelled each with its own specification:            *)
(*   SpecIntel  - Intelligence.analyze_domain          (src/intelligence.py)*)
(*   SpecIntelSeq - runs of Intelligence calls         (src/intelligence.py)*)
(*   SpecFlags  - SuspiciousDomain.add_flag  (src/models/suspicious_domain.py)*)
(*   SpecFilter - StatisticalFilter   (src/filters/statistical_filter.py)  *)
(*   SpecFilterClear - StatisticalFilter with clear_old_data calls         *)
(*   SpecDns    - DNSExtractor              (src/parsers/dns_extractor.py) *)
(*   SpecPcap   - PCAPParser                  (src/parsers/pcap_parser.py) *)
(*   SpecPipeline - run_pcap_pipeline                     (src/pipeline.py) *)
(*   SpecPipelineCapture - run_pcap_pipeline from the capture file on      *)
(*   SpecStrings - find_common_substring    (src/utils/string_operations.py)*)
(*   SpecQueueFair - RequestQueue and its workers (src/utils/stealth_tools.py)*)
(*                                                                         *)
(* Conventions                                                             *)
(*  - A Python Optional value is a sequence of length <= 1: <<>> is None   *)
(*    (or a missing dict key), <<v>> is the value v.                       *)
(*  - A flag string such as "high_entropy_10_subdomains_0.85_ratio" is the *)
(*    sequence of its "_"-separated words; the Python test `key in flag`   *)
(*    is contiguous-subsequence search on these words (InStr).             *)
(*  - Timestamps are whole seconds.  confidence is kept in hundredths.     *)
(***************************************************************************)
EXTENDS Integers, Sequences, FiniteSets, TLC

VARIABLES
    \* Intelligence
    call,               \* arguments of analyze_domain: [domain, analysis_data]
    assessment,         \* value returned by analyze_domain (<<>> before the call)
    final_assessments,  \* Intelligence.final_assessments: domain -> assessment
    assessment_order,   \* keys of final_assessments, in dict insertion order
    intel_log,          \* analyze_domain calls made so far: [domain, analysis_data, returned]
    report,             \* value returned by generate_report, when it was the last call
    \* SuspiciousDomain under add_flag
    sd,                 \* one SuspiciousDomain object
    flag_call,          \* arguments of the last add_flag call (<<>> before any)
    \* StatisticalFilter
    domain_stats,       \* StatisticalFilter.domain_stats, in dict insertion order
    suspicious_domains, \* StatisticalFilter.suspicious_domains: base -> SuspiciousDomain
    total_queries_processed,
    newly_suspicious,   \* value returned by the last process_dns_queries call
    returned_log,       \* base domains returned so far, one entry per return
    batches,            \* number of process_dns_queries calls made
    filter_call,        \* the last call on the filter and its arguments (<<>> before any)
    \* DNSExtractor
    stats,              \* DNSExtractor.stats counters
    packet,             \* packet handed to extract_dns_from_packet (<<>> when idle)
    extracted,          \* list returned by extract_dns_from_packet
    \* PCAPParser, used as `with PCAPParser(f) as parser: for pkt in parser.parse_packets()`
    host_order,         \* byte order of the machine: "<" little-endian, ">" big-endian
    pcap_file,          \* the capture file: its bytes, and how its writer made it
    file_handle,        \* PCAPParser.file_handle: <<>> (None) or <<[closed, pos]>>
    endian,             \* PCAPParser.endian (<<>> while unset)
    header_parsed,      \* PCAPParser.header_parsed
    link_type,          \* PCAPParser.link_type (<<>> for None)
    packet_count,       \* packet_count of the parse_packets generator
    yielded,            \* packets the generator has yielded, in order
    session,            \* where the with/for session stands
    error,              \* exception that left the session (<<>> when none)
    \* run_pcap_pipeline
    config,             \* config["pipeline"]
    capture_queries,    \* `queries`: the DNS queries step 1 extracted from the capture
    stage,              \* the step of run_pcap_pipeline that runs next
    cursor,             \* position of the running loop in suspicious_domains
    analyzer_log,       \* per flagged item, the analyzers applied to it, in order
    web_calls,          \* domains the web collaborator was invoked for, in order
    results,            \* `results`: domain -> assessment
    pipeline_report,    \* value run_pcap_pipeline returns (<<>> while running)
    \* find_common_substring
    string_list,        \* `strings`, each a sequence of characters
    common_substring,   \* value returned (<<>> before the call, then <<value>>)
    \* RequestQueue, its worker threads and the thread that starts and stops it
    running,            \* RequestQueue.running
    queue,              \* the items of RequestQueue.queue, oldest first
    unfinished_tasks,   \* queue.unfinished_tasks: puts not yet matched by task_done
    workers,            \* per worker thread: where it stands, and the request it holds
    queue_results,      \* urls that have an entry in RequestQueue.results
    main,               \* where the thread that calls add_request/start/stop stands
    requests_added,     \* number of add_request calls made
    taken               \* urls that queue.get handed out, in order

intelVars  == <<call, assessment, final_assessments, assessment_order, intel_log, report>>
flagVars   == <<sd, flag_call>>
filterVars == <<domain_stats, suspicious_domains, total_queries_processed,
                newly_suspicious, returned_log, batches, filter_call>>
dnsVars    == <<stats, packet, extracted>>
pcapVars   == <<host_order, pcap_file, file_handle, endian, header_parsed, link_type,
                packet_count, yielded, session, error>>
pipelineVars == <<config, capture_queries, stage, cursor, analyzer_log, web_calls,
                  results, pipeline_report>>
stringVars == <<string_list, common_substring>>
queueVars  == <<running, queue, unfinished_tasks, workers, queue_results, main,
                requests_added, taken>>
utilVars   == <<stringVars, queueVars>>
vars == <<intelVars, flagVars, filterVars, dnsVars, pcapVars, pipelineVars, utilVars>>

----------------------------------------------------------------------------
(* Generic helpers *)

Min(a, b) == IF a < b THEN a ELSE b
Max(a, b) == IF a > b THEN a ELSE b

Range(s) == {s[i] : i \in DOMAIN s}

\* Python `key in flag` on word sequences.
InStr(key, flag) ==
    \E i \in 1..(Len(flag) - Len(key) + 1) : SubSeq(flag, i, i + Len(key) - 1) = key

\* Python any(key in f for f in flags).
AnyFlagHas(key, flags) == \E i \in DOMAIN flags : InStr(key, flags[i])

RECURSIVE SeqOfSet(_)
\* The elements of a finite set as a sequence, in a fixed order.
SeqOfSet(S) ==
    IF S = {} THEN <<>>
    ELSE LET x == CHOOSE y \in S : TRUE IN <<x>> \o SeqOfSet(S \ {x})

RECURSIVE SumSeq(_)
SumSeq(s) == IF s = <<>> THEN 0 ELSE Head(s) + SumSeq(Tail(s))

----------------------------------------------------------------------------
(* Intelligence (src/intelligence.py) *)

\* LegitimacyLevel values and the recommendations analyze_domain assigns.
LegitimacyLevel == {"legitimate", "suspicious", "likely_fake", "confirmed_fake", "unknown"}

\* Flag strings, as their "_"-separated words.
F_high_entropy     == <<"high", "entropy", "10", "subdomains", "0.85", "ratio">>
F_txt_heavy        == <<"txt", "heavy", "0.90", "ratio">>
F_rapid_subdomain  == <<"rapid", "subdomain", "generation", "3.2", "per", "min">>
F_high_frequency   == <<"high", "frequency", "12.0", "per", "min">>
F_single_use       == <<"single", "use", "pattern", "6", "domains", "1.00", "ratio">>
F_high_cardinality == <<"high", "cardinality", "0.90", "ratio">>
F_mixed_types      == <<"mixed", "query", "types", "4", "types">>
F_set_single_use   == <<"single", "use", "subdomains", "ratio:0.75">>
F_set_cardinality  == <<"high", "cardinality", "ratio:0.92">>
F_encoding_like    == <<"encoding", "like", "patterns">>
F_keyword_verify   == <<"keyword:verify">>

\* The keys of line 214, in the order the code lists them.
MajorKeys ==
    << <<"high", "frequency">>, <<"high", "entropy">>, <<"single", "use">>,
       <<"txt", "heavy">>, <<"rapid", "subdomain">>, <<"high", "cardinality">> >>

\* major_stat_flags of line 214 with the last key left out.
MajorStatFlags_DropLastKey(statistical_flags) ==
    SelectSeq(statistical_flags,
              LAMBDA f : \E k \in 1..(Len(MajorKeys) - 1) : InStr(MajorKeys[k], f))

\* major_stat_flags: the statistical flags that contain one of the major keys.
MajorStatFlags(statistical_flags) ==
    SelectSeq(statistical_flags,
              LAMBDA f : \E k \in DOMAIN MajorKeys : InStr(MajorKeys[k], f))

\* any(d.values()) for a dict with boolean values (a function; <<>> is {}).
AnyTrue(d) == \E k \in DOMAIN d : d[k]

\* The hard override with "and" between its two halves.
HardOverride_Both(blacklisted, statistical_flags) ==
    blacklisted /\ (AnyFlagHas(<<"txt", "heavy">>, statistical_flags)
                    /\ AnyFlagHas(<<"high", "entropy">>, statistical_flags))

\* Condition of line 299.
HardOverride(blacklisted, statistical_flags) ==
    blacklisted \/ (AnyFlagHas(<<"txt", "heavy">>, statistical_flags)
                    /\ AnyFlagHas(<<"high", "entropy">>, statistical_flags))

\* Lines 303-314 with the first comparison strict.
LevelForScore_Strict75(score) ==
    IF score > 75 THEN <<"legitimate", "ALLOW">>
    ELSE IF score >= 60 THEN <<"suspicious", "MONITOR">>
    ELSE IF score >= 40 THEN <<"likely_fake", "INVESTIGATE">>
    ELSE <<"confirmed_fake", "BLOCK">>

\* Lines 303-314: <<level, recommendation>> from the (unclamped) score.
LevelForScore(score) ==
    IF score >= 75 THEN <<"legitimate", "ALLOW">>
    ELSE IF score >= 60 THEN <<"suspicious", "MONITOR">>
    ELSE IF score >= 40 THEN <<"likely_fake", "INVESTIGATE">>
    ELSE <<"confirmed_fake", "BLOCK">>

\* The clamp of line 320 without its upper limit.
ClampScore_NoUpper(score) == Max(0, score)

\* Line 320: max(0, min(100, int(score))).
ClampScore(score) == Max(0, Min(100, score))

\* Line 292 counting one source more than were given.
Confidence_OneMore(sources) == Min(100, 20 + 15 * (sources + 1))

\* Line 292 and 321, in hundredths: round(min(1.0, 0.2 + 0.15 * sources), 2).
Confidence(sources) == Min(100, 20 + 15 * sources)

\* One rule of lines 186-277: its label when the condition holds.
Lab(cond, label) == IF cond THEN <<label>> ELSE <<>>
\* One rule of lines 186-277: its score change when the condition holds.
Pts(cond, delta) == IF cond THEN delta ELSE 0

\* Intelligence.analyze_domain: the assessment built for (domain, analysis_data).
\* The timestamp (datetime.now()) is left out of the assessment.
AnalyzeDomainResult(domain, analysis_data) ==
    LET statistical_flags == analysis_data.statistical_flags
        string_flags      == analysis_data.string_patterns
        set_flags         == analysis_data.set_analysis
        semantic_flags    == analysis_data.semantic_analysis
        web_profile       == analysis_data.web_crawl_results
        website_history   == analysis_data.website_history
        has_web           == web_profile # <<>>            \* `if web_profile`
        wp                == web_profile[1]
        age_days          == IF has_web THEN wp.age_days ELSE <<>>
        blacklist         == IF has_web THEN wp.blacklist ELSE <<>>
        content_length    == IF has_web THEN wp.content_length ELSE <<>>
        \* positive indicators
        c_age     == age_days # <<>> /\ age_days[1] > 365
        c_ssl     == has_web /\ wp.valid_ssl
        c_content == content_length # <<>> /\ content_length[1] > 500
        c_social  == has_web /\ AnyTrue(wp.social_presence)
        c_normal  == MajorStatFlags(statistical_flags) = <<>>
        c_ns      == has_web /\ Len(wp.name_servers) >= 2
        c_contact == content_length # <<>> /\ content_length[1] > 1000
        \* negative indicators
        c_entropy == AnyFlagHas(<<"high", "entropy">>, statistical_flags)
        c_freq    == AnyFlagHas(<<"high", "frequency">>, statistical_flags)
        c_single  == \/ AnyFlagHas(<<"single", "use", "pattern">>, statistical_flags \o set_flags)
                     \/ AnyFlagHas(<<"single", "use", "subdomains">>, statistical_flags \o set_flags)
        c_noweb   == has_web /\ ~wp.http_accessible /\ ~wp.https_accessible
        c_recent  == age_days # <<>> /\ age_days[1] < 90
        c_privacy == has_web /\ wp.privacy_protected
        c_txt     == AnyFlagHas(<<"txt", "heavy">>, statistical_flags)
        blacklisted == AnyTrue(blacklist)
        positives ==
            Lab(c_age, "domain_age>1y") \o Lab(c_ssl, "valid_ssl")
            \o Lab(c_content, "active_site_content") \o Lab(c_social, "social_presence")
            \o Lab(c_normal, "normal_dns_patterns") \o Lab(c_ns, "established_ns")
            \o Lab(c_contact, "contact_info_signals")
        negatives ==
            Lab(c_entropy, "high_entropy_subdomains") \o Lab(c_freq, "excessive_query_frequency")
            \o Lab(c_single, "single_use_pattern") \o Lab(c_noweb, "no_web_presence")
            \o Lab(c_recent, "recent_registration") \o Lab(c_privacy, "privacy_protected")
            \o Lab(c_txt, "suspicious_query_types") \o Lab(blacklisted, "blacklisted")
        score ==
            50 + Pts(c_age, 15) + Pts(c_ssl, 10) + Pts(c_content, 15) + Pts(c_social, 10)
               + Pts(c_normal, 10) + Pts(c_ns, 5) + Pts(c_contact, 5)
               - Pts(c_entropy, 20) - Pts(c_freq, 15) - Pts(c_single, 15) - Pts(c_noweb, 10)
               - Pts(c_recent, 10) - Pts(c_privacy, 5) - Pts(c_txt, 10) - Pts(blacklisted, 30)
        risk_factors == string_flags \o set_flags \o semantic_flags
        sources ==
            Pts(statistical_flags # <<>>, 1) + Pts(string_flags # <<>>, 1)
            + Pts(set_flags # <<>>, 1) + Pts(semantic_flags # <<>>, 1)
            + Pts(has_web, 1) + Pts(website_history # <<>>, 1)
        verdict ==
            IF HardOverride(blacklisted, statistical_flags)
            THEN <<"confirmed_fake", "BLOCK">>
            ELSE LevelForScore(score)
    IN  [ domain           |-> domain,
          legitimacy_level |-> verdict[1],
          legitimacy_score |-> ClampScore(score),
          confidence       |-> Confidence(sources),
          evidence         |-> [ positive_indicators |-> positives,
                                 negative_indicators |-> negatives,
                                 risk_factors        |-> risk_factors ],
          recommendation   |-> verdict[2],
          detailed_analysis |-> analysis_data ]

\* --- inputs of analyze_domain ---

\* web_crawl_results dicts.  A key the dict lacks reads as None through
\* dict.get: FALSE stands for a missing or falsy boolean, <<>> for a missing
\* age_days / content_length, an empty list or an empty dict.
Blacklists ==
    { [n \in {"google_safe_browsing", "malware_domain_list"} |-> FALSE],
      [n \in {"google_safe_browsing", "malware_domain_list"} |-> n = "malware_domain_list"] }

\* Profiles of sites without social presence or name servers.
WebProfilesPlain ==
    [ age_days          : {<<>>, <<45>>, <<2000>>},
      valid_ssl         : BOOLEAN,
      content_length    : {<<0>>, <<700>>, <<2500>>},
      http_accessible   : BOOLEAN,
      https_accessible  : {FALSE},
      privacy_protected : BOOLEAN,
      blacklist         : Blacklists,
      social_presence   : { <<>> },
      name_servers      : { <<>> } ]

\* Profiles of reachable sites with a valid certificate.
WebProfilesReachable ==
    [ age_days          : {<<>>, <<45>>, <<2000>>},
      valid_ssl         : {TRUE},
      content_length    : {<<0>>, <<700>>, <<2500>>},
      http_accessible   : {TRUE},
      https_accessible  : BOOLEAN,
      privacy_protected : {FALSE},
      blacklist         : Blacklists,
      social_presence   : { <<>>, [n \in {"twitter"} |-> TRUE] },
      name_servers      : { <<>>, <<"ns1.example.com", "ns2.example.com">> } ]

\* The newco.io profile of the demo: reachable, recent, privacy protected.
WebProfileNewco ==
    [ age_days |-> <<45>>, valid_ssl |-> TRUE, content_length |-> <<700>>,
      http_accessible |-> TRUE, https_accessible |-> TRUE, privacy_protected |-> TRUE,
      blacklist |-> <<>>, social_presence |-> <<>>, name_servers |-> <<>> ]

WebProfiles == WebProfilesPlain \cup WebProfilesReachable \cup {WebProfileNewco}

\* statistical_flags lists: every sub-list of four filter flags, the other
\* flags alone, and the list of the demo's suspicious-tunnel.net.
StatFlagLists ==
    { SelectSeq(<<F_high_entropy, F_txt_heavy, F_high_frequency, F_single_use>>,
                LAMBDA f : f \in S) :
        S \in SUBSET {F_high_entropy, F_txt_heavy, F_high_frequency, F_single_use} }
    \cup { <<F_mixed_types>>, <<F_rapid_subdomain>>, <<F_high_cardinality>>,
           <<F_high_entropy, F_txt_heavy, F_rapid_subdomain>> }

\* <<string_patterns, semantic_analysis, website_history>> of an input.
AuxFacets ==
    { << <<>>, <<>>, <<>> >>,
      << <<F_encoding_like>>, <<>>, <<>> >>,
      << <<F_encoding_like>>, <<F_keyword_verify>>, <<>> >>,
      << <<F_encoding_like>>, <<F_keyword_verify>>, <<"registrar_change">> >> }

AnalysisInputs ==
    { [ statistical_flags |-> s,
        string_patterns   |-> a[1],
        set_analysis      |-> t,
        semantic_analysis |-> a[2],
        web_crawl_results |-> w,
        website_history   |-> a[3] ] :
      s \in StatFlagLists,
      a \in AuxFacets,
      t \in { <<>>, <<F_set_cardinality, F_set_single_use>> },
      w \in { <<>> } \cup { <<p>> : p \in WebProfiles } }

IntelDomains == {"newco.io"}

IntelIdle ==
    /\ call = <<>>
    /\ assessment = <<>>
    /\ final_assessments = <<>>
    /\ assessment_order = <<>>
    /\ intel_log = <<>>
    /\ report = <<>>

\* The state after Intelligence() is constructed, with the next call's arguments drawn.
IntelInit ==
    /\ call \in [domain : IntelDomains, analysis_data : AnalysisInputs]
    /\ assessment = <<>>
    /\ final_assessments = [d \in {} |-> <<>>]
    /\ assessment_order = <<>>
    /\ intel_log = <<>>
    /\ report = <<>>

\* Line 331 keeping the assessment the dict already has for the domain.
StoreAssessment_KeepFirst(stored, order, domain, a) ==
    << [d \in DOMAIN stored \cup {domain} |->
           IF d \in DOMAIN stored THEN stored[d] ELSE a],
       IF domain \in DOMAIN stored THEN order ELSE Append(order, domain) >>

\* Line 331, self.final_assessments[domain] = assessment, on the dict given
\* as <<mapping, keys in insertion order>>: a new key goes last, a key the
\* dict has keeps its place.
StoreAssessment(stored, order, domain, a) ==
    << [d \in DOMAIN stored \cup {domain} |-> IF d = domain THEN a ELSE stored[d]],
       IF domain \in DOMAIN stored THEN order ELSE Append(order, domain) >>

\* Intelligence.analyze_domain(domain, analysis_data), lines 149-332: builds the
\* assessment, stores it under the domain and returns it.
AnalyzeDomainCall(domain, analysis_data) ==
    LET a == AnalyzeDomainResult(domain, analysis_data)
        d == StoreAssessment(final_assessments, assessment_order, domain, a)
    IN  /\ call' = [domain |-> domain, analysis_data |-> analysis_data]
        /\ assessment' = <<a>>
        /\ final_assessments' = d[1]
        /\ assessment_order' = d[2]
        /\ intel_log' = Append(intel_log, [domain |-> domain,
                                           analysis_data |-> analysis_data,
                                           returned |-> a])
        /\ report' = <<>>

\* Intelligence.analyze_domain(call.domain, call.analysis_data): lines 149-332.
AnalyzeDomain ==
    /\ assessment = <<>>
    /\ AnalyzeDomainCall(call.domain, call.analysis_data)

\* --- the report ---

\* Lines 343-351 counting CONFIRMED_FAKE only.
GetHighRiskDomains_ConfirmedOnly(stored, order) ==
    SelectSeq(order, LAMBDA d : stored[d].legitimacy_level \in {"confirmed_fake"})

\* Intelligence.get_high_risk_domains, lines 343-351: the stored domains, in
\* dict order, whose assessment is LIKELY_FAKE or CONFIRMED_FAKE.
GetHighRiskDomains(stored, order) ==
    SelectSeq(order, LAMBDA d : stored[d].legitimacy_level \in {"likely_fake", "confirmed_fake"})

\* Intelligence._get_legitimacy_breakdown, lines 364-370: every level starts
\* at 0 and counts the stored assessments of that level.
GetLegitimacyBreakdown(stored) ==
    [level \in LegitimacyLevel |->
        Cardinality({d \in DOMAIN stored : stored[d].legitimacy_level = level})]

\* Lines 383-386: flag_counter[neg], the occurrences of neg in the
\* negative_indicators of the stored assessments.
FlagCounter(stored, order, neg) ==
    SumSeq([i \in 1..Len(order) |->
        Len(SelectSeq(stored[order[i]].evidence.negative_indicators,
                      LAMBDA n : n = neg))])

\* The messages of _generate_recommendations; the first carries len(high_risk).
R_block(n)      == <<"Block or sinkhole", n, "high-risk domains">>
R_entropy       == <<"Tighten high-entropy thresholds or enable deeper inspection">>
R_frequency     == <<"Rate-limit or investigate sources with high DNS query rates">>
R_single_use    == <<"Inspect potential DNS tunneling with many single-use subdomains">>
R_monitor       == <<"Enable monitoring for suspicious domains and collect more telemetry">>

\* Intelligence._generate_recommendations, lines 372-399.
GenerateRecommendations(stored, order) ==
    LET breakdown == GetLegitimacyBreakdown(stored)
        high_risk == GetHighRiskDomains(stored, order)
    IN  (IF high_risk # <<>> THEN <<R_block(Len(high_risk))>> ELSE <<>>)
        \o (IF FlagCounter(stored, order, "high_entropy_subdomains") >= 3
            THEN <<R_entropy>> ELSE <<>>)
        \o (IF FlagCounter(stored, order, "excessive_query_frequency") >= 3
            THEN <<R_frequency>> ELSE <<>>)
        \o (IF FlagCounter(stored, order, "single_use_pattern") >= 3
            THEN <<R_single_use>> ELSE <<>>)
        \o (IF breakdown["suspicious"] > 0 THEN <<R_monitor>> ELSE <<>>)

\* Intelligence.generate_report, lines 353-362: the dict it returns.
GenerateReportResult(stored, order) ==
    [ total_domains_analyzed |-> Cardinality(DOMAIN stored),
      legitimacy_breakdown   |-> GetLegitimacyBreakdown(stored),
      high_risk_domains      |-> GetHighRiskDomains(stored, order),
      recommendations        |-> GenerateRecommendations(stored, order) ]

\* Intelligence.generate_report(): lines 353-362.  It changes nothing stored.
GenerateReport ==
    /\ report' = <<GenerateReportResult(final_assessments, assessment_order)>>
    /\ UNCHANGED <<call, assessment, final_assessments, assessment_order, intel_log>>

\* --- a run of calls on one Intelligence object ---

\* The three inputs of the demo (src/demo_pipeline.py, lines 10-75).
F_sequential_pairs == <<"sequential", "generation", "pairs:5">>

ExampleComData ==
    [ statistical_flags |-> <<>>, string_patterns |-> <<>>, set_analysis |-> <<>>,
      semantic_analysis |-> <<>>,
      web_crawl_results |->
          << [ age_days |-> <<2000>>, valid_ssl |-> TRUE, content_length |-> <<2500>>,
               http_accessible |-> TRUE, https_accessible |-> TRUE,
               privacy_protected |-> FALSE,
               blacklist |-> [n \in {"google_safe_browsing", "malware_domain_list",
                                     "phishtank", "spamhaus"} |-> FALSE],
               social_presence |-> [n \in {"twitter"} |-> TRUE],
               name_servers |-> <<"ns1.example.com", "ns2.example.com">> ] >>,
      website_history |-> <<>> ]

SuspiciousTunnelData ==
    [ statistical_flags |-> <<F_high_entropy, F_txt_heavy, F_rapid_subdomain>>,
      string_patterns |-> <<F_encoding_like, F_sequential_pairs>>,
      set_analysis |-> <<F_set_cardinality, F_set_single_use>>,
      semantic_analysis |-> <<F_keyword_verify>>,
      web_crawl_results |->
          << [ age_days |-> <<10>>, valid_ssl |-> FALSE, content_length |-> <<0>>,
               http_accessible |-> FALSE, https_accessible |-> FALSE,
               privacy_protected |-> TRUE,
               blacklist |-> [n \in {"google_safe_browsing", "malware_domain_list"} |->
                                 n = "malware_domain_list"],
               social_presence |-> <<>>, name_servers |-> <<>> ] >>,
      website_history |-> <<>> ]

NewcoData ==
    [ statistical_flags |-> <<F_mixed_types>>, string_patterns |-> <<>>,
      set_analysis |-> <<>>, semantic_analysis |-> <<>>,
      web_crawl_results |-> <<WebProfileNewco>>,
      website_history |-> <<>> ]

\* The input the pipeline builds for a domain flagged for entropy alone when
\* web checks are off (src/pipeline.py, lines 56-62).
HighEntropyData ==
    [ statistical_flags |-> <<F_high_entropy>>, string_patterns |-> <<>>,
      set_analysis |-> <<>>, semantic_analysis |-> <<>>,
      web_crawl_results |-> <<>>, website_history |-> <<>> ]

\* The example.com input with a website history on record.
ExampleComWithHistory ==
    [ExampleComData EXCEPT !.website_history = <<"registrar_change">>]

\* The same for a domain flagged for rapid subdomain generation alone.
RapidSubdomainData ==
    [HighEntropyData EXCEPT !.statistical_flags = <<F_rapid_subdomain>>]

SeqInputs ==
    {ExampleComData, SuspiciousTunnelData, NewcoData, HighEntropyData,
     RapidSubdomainData, ExampleComWithHistory}

SeqDomains == {"example.com", "suspicious-tunnel.net", "newco.io"}

\* Number of analyze_domain calls made on the one object.
MaxCalls == 3

\* The state after Intelligence() is constructed.
IntelSeqInit == IntelIdle

\* One more analyze_domain call, with any domain and input.
AnalyzeNext ==
    /\ Len(intel_log) < MaxCalls
    /\ \E domain \in SeqDomains, analysis_data \in SeqInputs :
           AnalyzeDomainCall(domain, analysis_data)

----------------------------------------------------------------------------
(* DNSQuery as the filters see it (src/models/dns_query.py)                *)
(*                                                                         *)
(* `domain` is the list of labels of the normalised name (lower-cased,     *)
(* trailing dot stripped, split on ".").  A label is kept as its identity  *)
(* (name, n), its length in characters and its Shannon entropy in          *)
(* thousandths of a bit, the two properties of its text the filter reads.  *)

LabelOf(name, n, len, entropy) ==
    [name |-> name, n |-> n, len |-> len, entropy |-> entropy]

\* DNSQuery.subdomain: the labels above the last two.
Subdomain(q) ==
    IF Len(q.domain) <= 2 THEN <<>> ELSE SubSeq(q.domain, 1, Len(q.domain) - 2)

\* DNSQuery.base_domain: the last two labels (the whole name when it has fewer).
BaseDomain(q) ==
    IF Len(q.domain) >= 2 THEN SubSeq(q.domain, Len(q.domain) - 1, Len(q.domain))
    ELSE q.domain

\* len(subdomain): the labels' characters and the dots between them.
RECURSIVE StrLen(_)
StrLen(labels) ==
    IF labels = <<>> THEN 0
    ELSE Head(labels).len + (IF Len(labels) > 1 THEN 1 ELSE 0) + StrLen(Tail(labels))

\* calculate_subdomain_entropy, in thousandths of a bit.  The entropy of a
\* one-label subdomain is the label's; the model feeds no deeper subdomains.
SubdomainEntropy(labels) ==
    IF labels = <<>> THEN 0 ELSE Head(labels).entropy

----------------------------------------------------------------------------
(* SuspiciousDomain (src/models/suspicious_domain.py) *)

FlagCategories == {"statistical", "string", "set", "semantic"}

\* SuspiciousDomain(base_domain=..., first_seen=..., last_seen=...).
NewSuspiciousDomain(base_domain, first_seen, last_seen) ==
    [ base_domain       |-> base_domain,
      first_seen        |-> first_seen,
      last_seen         |-> last_seen,
      total_queries     |-> 0,
      unique_subdomains |-> {},
      source_ips        |-> {},
      statistical_flags |-> <<>>,
      string_flags      |-> <<>>,
      set_flags         |-> <<>>,
      semantic_flags    |-> <<>>,
      queries           |-> <<>>,
      scores            |-> <<>> ]

\* add_query that forgets to count the query.
AddQuery_NoCount(s, query) ==
    [ s EXCEPT
        !.queries = Append(@, query),
        !.unique_subdomains = IF Subdomain(query) # <<>> THEN @ \cup {Subdomain(query)} ELSE @,
        !.source_ips = @ \cup {query.source_ip},
        !.first_seen = IF query.timestamp < @ THEN query.timestamp ELSE @,
        !.last_seen = IF query.timestamp > @ THEN query.timestamp ELSE @ ]

\* SuspiciousDomain.add_query.
AddQuery(s, query) ==
    [ s EXCEPT
        !.queries = Append(@, query),
        !.total_queries = @ + 1,
        !.unique_subdomains = IF Subdomain(query) # <<>> THEN @ \cup {Subdomain(query)} ELSE @,
        !.source_ips = @ \cup {query.source_ip},
        !.first_seen = IF query.timestamp < @ THEN query.timestamp ELSE @,
        !.last_seen = IF query.timestamp > @ THEN query.timestamp ELSE @ ]

\* The list add_flag appends to: category_map.get(category) or
\* self.statistical_flags.  `or` takes its right side when the left is None
\* (unknown category) and also when it is an empty list.
FlagTarget(s, category) ==
    IF category = "string" /\ s.string_flags # <<>> THEN "string"
    ELSE IF category = "set" /\ s.set_flags # <<>> THEN "set"
    ELSE IF category = "semantic" /\ s.semantic_flags # <<>> THEN "semantic"
    ELSE "statistical"

\* SuspiciousDomain.add_flag.
AddFlag(s, category, flag) ==
    LET target == FlagTarget(s, category) IN
    [ s EXCEPT
        !.statistical_flags = IF target = "statistical" THEN Append(@, flag) ELSE @,
        !.string_flags      = IF target = "string" THEN Append(@, flag) ELSE @,
        !.set_flags         = IF target = "set" THEN Append(@, flag) ELSE @,
        !.semantic_flags    = IF target = "semantic" THEN Append(@, flag) ELSE @ ]

\* --- add_flag calls on a fresh SuspiciousDomain ---

MaxFlagCalls == 4

\* Categories and flags the callers pass; "other" is no known category.
CallCategories == FlagCategories \cup {"other"}
CallFlags ==
    { <<"encoding", "like", "patterns">>, <<"consonant", "heavy", "labels">>,
      <<"homoglyph", "like", "sequence">> }

TunXyz == << LabelOf("tun", 0, 3, 1585), LabelOf("xyz", 0, 3, 1585) >>
ExampleCom == << LabelOf("example", 0, 7, 2522), LabelOf("com", 0, 3, 1585) >>

FlagsInit ==
    /\ sd = NewSuspiciousDomain(TunXyz, 0, 0)
    /\ flag_call = <<>>

FlagCount(s) ==
    Len(s.statistical_flags) + Len(s.string_flags) + Len(s.set_flags) + Len(s.semantic_flags)

\* sd.add_flag(category, flag)
AddFlagCall(category, flag) ==
    /\ FlagCount(sd) < MaxFlagCalls
    /\ sd' = AddFlag(sd, category, flag)
    /\ flag_call' = <<[category |-> category, flag |-> flag]>>

----------------------------------------------------------------------------
(* StatisticalFilter (src/filters/statistical_filter.py) *)

\* self.thresholds (the entropy threshold 4.0 in thousandths of a bit).
FrequencyPerMinute   == 10
MaxSubdomainLength   == 20
HighEntropyThreshold == 4000

\* f"{x:.1f}" of the fraction num/den (den > 0), rounding halves up.
Fmt1(num, den) ==
    LET t == (20 * num + den) \div (2 * den)
    IN  ToString(t \div 10) \o "." \o ToString(t % 10)

\* f"{x:.2f}" of the fraction num/den (den > 0), rounding halves up.
Fmt2(num, den) ==
    LET h == (200 * num + den) \div (2 * den)
    IN  ToString(h \div 100) \o "." \o ToString((h % 100) \div 10) \o ToString(h % 10)

\* The entry of domain_stats for base_domain, as a one-element list, or <<>>.
StatsOf(ds, base_domain) ==
    SelectSeq(ds, LAMBDA e : e.base_domain = base_domain)

\* The value the defaultdict factory makes for a new key (lines 30-37).
NewStats(base_domain) ==
    [ base_domain       |-> base_domain,
      queries           |-> <<>>,
      unique_subdomains |-> {},
      source_ips        |-> {},
      query_types       |-> <<>>,
      first_seen        |-> <<>>,
      last_seen         |-> <<>> ]

\* Counter()[key] += 1
CounterInc(counter, key) ==
    IF key \in DOMAIN counter THEN [counter EXCEPT ![key] = @ + 1]
    ELSE counter @@ (key :> 1)

\* Lines 66-82 of _update_domain_stats on one entry.
UpdateEntry(e, query) ==
    [ e EXCEPT
        !.queries = Append(@, query),
        !.unique_subdomains = IF Subdomain(query) # <<>> THEN @ \cup {Subdomain(query)} ELSE @,
        !.source_ips = @ \cup {query.source_ip},
        !.query_types = CounterInc(@, query.query_type),
        !.first_seen = IF @ = <<>> \/ query.timestamp < @[1] THEN <<query.timestamp>> ELSE @,
        !.last_seen = IF @ = <<>> \/ query.timestamp > @[1] THEN <<query.timestamp>> ELSE @ ]

\* StatisticalFilter._update_domain_stats: domain_stats after one query.
UpdateDomainStats(ds, query) ==
    IF StatsOf(ds, BaseDomain(query)) = <<>>
    THEN Append(ds, UpdateEntry(NewStats(BaseDomain(query)), query))
    ELSE LET at == CHOOSE i \in DOMAIN ds : ds[i].base_domain = BaseDomain(query)
         IN  SubSeq(ds, 1, at - 1) \o <<UpdateEntry(ds[at], query)>>
             \o SubSeq(ds, at + 1, Len(ds))

RECURSIVE UpdateAll(_, _)
\* The loop of lines 50-52 over a batch.
UpdateAll(ds, queries) ==
    IF queries = <<>> THEN ds
    ELSE UpdateAll(UpdateDomainStats(ds, Head(queries)), Tail(queries))

\* (last_seen - first_seen).total_seconds()
WindowSeconds(st) == st.last_seen[1] - st.first_seen[1]

\* 1. High frequency check (lines 129-133): queries per minute is
\* 60 * queries / seconds.
HighFrequencyFlags(st) ==
    IF WindowSeconds(st) > 0
       /\ 60 * Len(st.queries) > FrequencyPerMinute * WindowSeconds(st)
    THEN << <<"high", "frequency", Fmt1(60 * Len(st.queries), WindowSeconds(st)), "per", "min">> >>
    ELSE <<>>

\* 2. Long subdomain check (lines 136-139): the first long subdomain the set
\* iteration meets.
LongSubdomainFlags(st) ==
    LET long == {u \in st.unique_subdomains : StrLen(u) > MaxSubdomainLength}
    IN  IF long = {} THEN <<>>
        ELSE << <<"long", "subdomain", ToString(StrLen(CHOOSE u \in long : TRUE)), "chars">> >>

\* 3. High entropy check (lines 142-150).
HighEntropyFlags(st) ==
    LET count == Cardinality({u \in st.unique_subdomains :
                                 SubdomainEntropy(u) > HighEntropyThreshold})
    IN  IF count > 0
        THEN << <<"high", "entropy", ToString(count), "subdomains",
                  Fmt2(count, Cardinality(st.unique_subdomains)), "ratio">> >>
        ELSE <<>>

\* subdomain_counts of lines 154-157: the non-empty subdomains of the queries.
CountedSubdomains(st) ==
    {Subdomain(st.queries[i]) : i \in DOMAIN st.queries} \ {<<>>}

\* 4. Single-use domain pattern (lines 153-165).
SingleUseFlags(st) ==
    LET single == {u \in CountedSubdomains(st) :
                      Cardinality({i \in DOMAIN st.queries : Subdomain(st.queries[i]) = u}) = 1}
        single_use_count == Cardinality(single)
    IN  IF single_use_count > 5
        THEN << <<"single", "use", "pattern", ToString(single_use_count), "domains",
                  Fmt2(single_use_count, Cardinality(CountedSubdomains(st))), "ratio">> >>
        ELSE <<>>

\* sum(stats['query_types'].values())
RECURSIVE CounterTotal(_)
CounterTotal(counter) ==
    IF DOMAIN counter = {} THEN 0
    ELSE LET k == CHOOSE x \in DOMAIN counter : TRUE
         IN  counter[k] + CounterTotal([x \in DOMAIN counter \ {k} |-> counter[x]])

\* stats['query_types'].get('TXT', 0)
TxtCount(st) == IF "TXT" \in DOMAIN st.query_types THEN st.query_types["TXT"] ELSE 0

\* The TXT check of lines 169-173 with "at least 10 queries".
TxtHeavyFlags_AtLeast10(st) ==
    LET total_queries == CounterTotal(st.query_types) IN
    IF total_queries >= 10 /\ 10 * TxtCount(st) > 8 * total_queries
    THEN << <<"txt", "heavy", Fmt2(TxtCount(st), total_queries), "ratio">> >>
    ELSE <<>>

\* 5a. Predominantly TXT queries (lines 168-173): txt_ratio > 0.8.
TxtHeavyFlags(st) ==
    LET total_queries == CounterTotal(st.query_types) IN
    IF total_queries > 10 /\ 10 * TxtCount(st) > 8 * total_queries
    THEN << <<"txt", "heavy", Fmt2(TxtCount(st), total_queries), "ratio">> >>
    ELSE <<>>

\* 5b. Mixed query types (lines 168-169, 175-178).
MixedTypesFlags(st) ==
    LET unique_types == Cardinality(DOMAIN st.query_types) IN
    IF CounterTotal(st.query_types) > 10 /\ unique_types > 3
    THEN << <<"mixed", "query", "types", ToString(unique_types), "types">> >>
    ELSE <<>>

\* 6. Rapid subdomain generation (lines 181-185): subdomains per minute is
\* 60 * unique / seconds.
RapidGenerationFlags(st) ==
    IF /\ Cardinality(st.unique_subdomains) > 20
       /\ WindowSeconds(st) > 0
       /\ 60 * Cardinality(st.unique_subdomains) > 2 * WindowSeconds(st)
    THEN << <<"rapid", "subdomain", "generation",
              Fmt1(60 * Cardinality(st.unique_subdomains), WindowSeconds(st)), "per", "min">> >>
    ELSE <<>>

\* 7. High cardinality ratio (lines 188-191): cardinality_ratio > 0.8.
HighCardinalityFlags(st) ==
    LET total_queries == CounterTotal(st.query_types) IN
    IF total_queries > 10 /\ 10 * Cardinality(st.unique_subdomains) > 8 * total_queries
    THEN << <<"high", "cardinality", Fmt2(Cardinality(st.unique_subdomains), total_queries),
              "ratio">> >>
    ELSE <<>>

\* StatisticalFilter._check_statistical_indicators.
CheckStatisticalIndicators(st) ==
    HighFrequencyFlags(st) \o LongSubdomainFlags(st) \o HighEntropyFlags(st)
    \o SingleUseFlags(st) \o TxtHeavyFlags(st) \o MixedTypesFlags(st)
    \o RapidGenerationFlags(st) \o HighCardinalityFlags(st)

\* Lines 129-133 dividing by the window whatever it is.
Divisors_UnguardedWindow(st) ==
    LET total_queries == CounterTotal(st.query_types)
        high_entropy_count == Cardinality({u \in st.unique_subdomains :
                                  SubdomainEntropy(u) > HighEntropyThreshold})
        single_use_count == Cardinality({u \in CountedSubdomains(st) :
                                Cardinality({i \in DOMAIN st.queries :
                                                Subdomain(st.queries[i]) = u}) = 1})
    IN  <<WindowSeconds(st)>>
        \o (IF high_entropy_count > 0 THEN <<Cardinality(st.unique_subdomains)>> ELSE <<>>)
        \o (IF single_use_count > 5 THEN <<Cardinality(CountedSubdomains(st))>> ELSE <<>>)
        \o (IF total_queries > 10 THEN <<total_queries>> ELSE <<>>)
        \o (IF Cardinality(st.unique_subdomains) > 20 /\ WindowSeconds(st) > 0
            THEN <<WindowSeconds(st)>> ELSE <<>>)
        \o (IF total_queries > 10 THEN <<total_queries>> ELSE <<>>)

\* The numbers _check_statistical_indicators divides by on an aggregate, in
\* the order it does: the window (line 131), the unique subdomains (149), the
\* counted subdomains (164), the total queries (171), the window (183) and
\* the total queries (189), each only under the `if` that guards it.
Divisors(st) ==
    LET total_queries == CounterTotal(st.query_types)
        high_entropy_count == Cardinality({u \in st.unique_subdomains :
                                  SubdomainEntropy(u) > HighEntropyThreshold})
        single_use_count == Cardinality({u \in CountedSubdomains(st) :
                                Cardinality({i \in DOMAIN st.queries :
                                                Subdomain(st.queries[i]) = u}) = 1})
    IN  (IF WindowSeconds(st) > 0 THEN <<WindowSeconds(st)>> ELSE <<>>)
        \o (IF high_entropy_count > 0 THEN <<Cardinality(st.unique_subdomains)>> ELSE <<>>)
        \o (IF single_use_count > 5 THEN <<Cardinality(CountedSubdomains(st))>> ELSE <<>>)
        \o (IF total_queries > 10 THEN <<total_queries>> ELSE <<>>)
        \o (IF Cardinality(st.unique_subdomains) > 20 /\ WindowSeconds(st) > 0
            THEN <<WindowSeconds(st)>> ELSE <<>>)
        \o (IF total_queries > 10 THEN <<total_queries>> ELSE <<>>)

\* The two skips of _analyze_domains without the "already flagged" one.
IsCandidate_NoFlaggedSkip(st, flagged) == Len(st.queries) >= 2

\* Lines 89-95 of _analyze_domains: not yet flagged, and at least 2 queries.
IsCandidate(st, flagged) ==
    /\ st.base_domain \notin flagged
    /\ Len(st.queries) >= 2

RECURSIVE AddQueries(_, _)
\* Lines 109-110: add all queries to the suspicious domain.
AddQueries(s, queries) ==
    IF queries = <<>> THEN s ELSE AddQueries(AddQuery(s, Head(queries)), Tail(queries))

RECURSIVE AddFlags(_, _, _)
\* Lines 113-114: add the flags.
AddFlags(s, category, flags) ==
    IF flags = <<>> THEN s
    ELSE AddFlags(AddFlag(s, category, Head(flags)), category, Tail(flags))

\* Lines 102-114: the SuspiciousDomain built for a flagged entry.
BuildSuspiciousDomain(st) ==
    AddFlags(AddQueries(NewSuspiciousDomain(st.base_domain, st.first_seen[1], st.last_seen[1]),
                        st.queries),
             "statistical", CheckStatisticalIndicators(st))

RECURSIVE AnalyzeDomains_Reanalyse(_, _)
\* _analyze_domains without the skip of lines 89-91: flagged domains are
\* analysed and stored again.
AnalyzeDomains_Reanalyse(ds, flagged) ==
    IF ds = <<>> THEN <<>>
    ELSE IF IsCandidate(Head(ds), {}) /\ CheckStatisticalIndicators(Head(ds)) # <<>>
         THEN <<BuildSuspiciousDomain(Head(ds))>> \o AnalyzeDomains_Reanalyse(Tail(ds), flagged)
         ELSE AnalyzeDomains_Reanalyse(Tail(ds), flagged)

RECURSIVE AnalyzeDomains(_, _)
\* StatisticalFilter._analyze_domains: the list it returns.  An entry flagged
\* in this pass is stored at once, so `flagged` is the set before the pass
\* (base domains are distinct keys of domain_stats).
AnalyzeDomains(ds, flagged) ==
    IF ds = <<>> THEN <<>>
    ELSE IF IsCandidate(Head(ds), flagged) /\ CheckStatisticalIndicators(Head(ds)) # <<>>
         THEN <<BuildSuspiciousDomain(Head(ds))>> \o AnalyzeDomains(Tail(ds), flagged)
         ELSE AnalyzeDomains(Tail(ds), flagged)

\* --- the query batches fed to the filter ---

MaxBatches == 2

\* Query types of a "mix" batch, by serial number.
MixTypes == <<"A", "AAAA", "MX", "TXT">>

\* A batch is described by: the base domain; n, the number of queries; sub,
\* the kind of subdomain ("rnd": a new 40-character random label per query,
\* "host": a new short label per query, "www": always www, "none": the base
\* domain alone); qt, the query
\* types ("TXT" or "mix"); and the time of the first query and the span to
\* the last.
BatchShapes ==
    [ base : {TunXyz}, n : {1, 10, 30}, sub : {"rnd", "host", "www"},
      qt : {"TXT", "mix"}, start : {0}, span : {300} ]
    \cup
    [ base : {TunXyz}, n : {1, 10}, sub : {"rnd", "www"},
      qt : {"TXT", "mix"}, start : {400}, span : {0} ]
    \cup
    [ base : {ExampleCom}, n : {1, 2}, sub : {"www"},
      qt : {"mix"}, start : {100}, span : {0, 1} ]

\* Query i of a batch, when the base domain already has `seen` queries.
BatchQuery(shape, seen, i) ==
    [ domain |->
        (CASE shape.sub = "rnd"  -> << LabelOf("rnd", seen + i, 40, 4700) >>
           [] shape.sub = "host" -> << LabelOf("host", seen + i, 6, 2250) >>
           [] shape.sub = "wrap" ->
                  << LabelOf("host", ((seen + i - 1) % shape.distinct) + 1, 6, 2250) >>
           [] shape.sub = "www"  -> << LabelOf("www", 0, 3, 0) >>
           [] shape.sub = "none" -> << >>)
        \o shape.base,
      timestamp  |-> shape.start + ((i - 1) * shape.span) \div Max(shape.n - 1, 1),
      source_ip  |-> IF i % 2 = 1 THEN "10.0.0.1" ELSE "10.0.0.2",
      query_type |-> IF shape.qt = "TXT" THEN "TXT"
                     ELSE MixTypes[((seen + i - 1) % 4) + 1] ]

RECURSIVE BatchFrom(_, _, _)
BatchFrom(shape, seen, i) ==
    IF i > shape.n THEN <<>>
    ELSE <<BatchQuery(shape, seen, i)>> \o BatchFrom(shape, seen, i + 1)

\* The queries of a batch; serial numbers go on from the queries the base
\* domain already has, so that "rnd" and "host" labels are new ones.
BatchQueries(shape, ds) ==
    BatchFrom(shape,
              IF StatsOf(ds, shape.base) = <<>> THEN 0
              ELSE Len(StatsOf(ds, shape.base)[1].queries),
              1)

RECURSIVE BaseDomainsOf(_)
\* The base domains of a list of SuspiciousDomain objects.
BaseDomainsOf(list) ==
    IF list = <<>> THEN <<>> ELSE <<Head(list).base_domain>> \o BaseDomainsOf(Tail(list))

\* StatisticalFilter.__init__
FilterInit ==
    /\ domain_stats = <<>>
    /\ suspicious_domains = <<>>
    /\ total_queries_processed = 0
    /\ newly_suspicious = <<>>
    /\ returned_log = <<>>
    /\ batches = 0
    /\ filter_call = <<>>

\* StatisticalFilter.process_dns_queries(queries): lines 43-59, with
\* _update_domain_stats for every query and then _analyze_domains.
ProcessDnsQueries(queries) ==
    LET ds  == UpdateAll(domain_stats, queries)
        new == AnalyzeDomains(ds, DOMAIN suspicious_domains)
    IN  /\ domain_stats' = ds
        /\ total_queries_processed' = total_queries_processed + Len(queries)
        /\ suspicious_domains' =
              [b \in DOMAIN suspicious_domains \cup {new[i].base_domain : i \in DOMAIN new} |->
                  IF \E x \in Range(new) : x.base_domain = b
                  THEN (CHOOSE x \in Range(new) : x.base_domain = b)
                  ELSE suspicious_domains[b]]
        /\ newly_suspicious' = new
        /\ returned_log' = returned_log \o BaseDomainsOf(new)
        /\ batches' = batches + 1
        /\ filter_call' = [op |-> "process_dns_queries", queries |-> queries]

\* cutoff_time of line 217: datetime.now() - timedelta(hours=hours), in seconds.
CutoffTime(now, hours) == now - 3600 * hours

\* Lines 219-222: the entries to remove, judged by the aggregate's last_seen.
DomainsToRemove(ds, cutoff_time) ==
    {ds[i].base_domain : i \in {k \in DOMAIN ds : ds[k].last_seen[1] < cutoff_time}}

\* StatisticalFilter.clear_old_data(hours) called at time `now`: lines 215-229.
ClearOldData(now, hours) ==
    LET domains_to_remove == DomainsToRemove(domain_stats, CutoffTime(now, hours)) IN
        /\ domain_stats' = SelectSeq(domain_stats,
                                     LAMBDA e : e.base_domain \notin domains_to_remove)
        /\ suspicious_domains' =
               [b \in DOMAIN suspicious_domains \ domains_to_remove |-> suspicious_domains[b]]
        /\ filter_call' = [op |-> "clear_old_data", now |-> now, hours |-> hours]
        /\ UNCHANGED <<total_queries_processed, newly_suspicious, returned_log, batches>>

\* --- batches and clear_old_data calls on one filter ---

\* Batches for the runs with clear_old_data: tun.xyz flagged over five
\* minutes, and queried again later at one instant; example.com queried
\* twice a second apart, and with no subdomain at one instant.
ClearShapes ==
    { [base |-> TunXyz, n |-> 30, sub |-> "rnd", qt |-> "TXT", start |-> 0, span |-> 300],
      [base |-> TunXyz, n |-> 10, sub |-> "rnd", qt |-> "TXT", start |-> 400, span |-> 0],
      [base |-> TunXyz, n |-> 1, sub |-> "www", qt |-> "mix", start |-> 400, span |-> 0],
      [base |-> ExampleCom, n |-> 2, sub |-> "www", qt |-> "mix", start |-> 100, span |-> 1],
      [base |-> ExampleCom, n |-> 2, sub |-> "none", qt |-> "mix", start |-> 100, span |-> 0],
      [base |-> ExampleCom, n |-> 12, sub |-> "none", qt |-> "TXT", start |-> 150, span |-> 0] }

\* When clear_old_data is called, and with what argument.
ClearCalls ==
    { [now |-> 3800, hours |-> 1], [now |-> 3950, hours |-> 1],
      [now |-> 4600, hours |-> 1], [now |-> 4600, hours |-> 24] }

----------------------------------------------------------------------------
(* DNSExtractor (src/parsers/dns_extractor.py)                              *)
(*                                                                         *)
(* Packet data and DNS messages are sequences of bytes (0..255); Python's  *)
(* 0-based offsets are kept, so byte `offset` of data is data[offset + 1]. *)
(* A str is the sequence of its code points.                               *)

ETHERTYPE_IP   == 2048
ETHERTYPE_IPV6 == 34525
IPPROTO_UDP    == 17
IPPROTO_TCP    == 6
DNS_PORT       == 53

\* data[offset]
At(data, offset) == data[offset + 1]

\* data[a:b] and data[a:], with Python's clamping of the ends.
Slice(data, a, b) == SubSeq(data, Min(a, Len(data)) + 1, Min(b, Len(data)))
SliceFrom(data, a) == Slice(data, a, Len(data))

\* struct.unpack('!H', data[offset:offset+2])[0]
U16(data, offset) == At(data, offset) * 256 + At(data, offset + 1)

\* bytes.decode('utf-8', errors='ignore'): ASCII bytes are their own code
\* points; a byte above 127 that starts no valid sequence is dropped (the
\* labels fed to the model hold no valid multi-byte sequence).
Decode(bytes) == SelectSeq(bytes, LAMBDA b : b < 128)

\* str.lower() on a code point.
LowerChar(c) == IF c \in 65..90 THEN c + 32 ELSE c

\* The ASCII characters str.strip() removes.
Whitespace == (9..13) \cup (28..32)

RECURSIVE Strip(_)
\* str.strip()
Strip(str) ==
    IF str = <<>> THEN str
    ELSE IF Head(str) \in Whitespace THEN Strip(Tail(str))
    ELSE IF str[Len(str)] \in Whitespace THEN Strip(SubSeq(str, 1, Len(str) - 1))
    ELSE str

\* DNSQuery.__post_init__: lower-case, strip, and end with a dot (46).
NormaliseDomain(domain) ==
    LET clean == Strip([i \in DOMAIN domain |-> LowerChar(domain[i])])
    IN  IF clean # <<>> /\ clean[Len(clean)] = 46 THEN clean ELSE Append(clean, 46)

RECURSIVE RStripDots(_)
\* str.rstrip('.')
RStripDots(str) ==
    IF str # <<>> /\ str[Len(str)] = 46 THEN RStripDots(SubSeq(str, 1, Len(str) - 1)) ELSE str

RECURSIVE SplitDots(_)
\* str.split('.'): the parts between the dots, at least one part.
SplitDots(str) ==
    IF \A i \in DOMAIN str : str[i] # 46 THEN <<str>>
    ELSE LET dot == CHOOSE i \in DOMAIN str : str[i] = 46 /\ \A j \in 1..(i - 1) : str[j] # 46
         IN  <<SubSeq(str, 1, dot - 1)>> \o SplitDots(SubSeq(str, dot + 1, Len(str)))

RECURSIVE JoinDots(_)
\* '.'.join(parts)
JoinDots(parts) ==
    IF parts = <<>> THEN <<>>
    ELSE IF Len(parts) = 1 THEN parts[1]
    ELSE parts[1] \o <<46>> \o JoinDots(Tail(parts))

\* parts = self.domain.rstrip('.').split('.')
PartsOf(domain) == SplitDots(RStripDots(domain))

\* DNSQuery.subdomain, as a str.
SubdomainStr(q) == JoinDots(Subdomain([domain |-> PartsOf(q.domain)]))

\* base_domain that never cuts the name.
BaseDomainStr_WholeName(q) == RStripDots(q.domain)

\* DNSQuery.base_domain, as a str.
BaseDomainStr(q) ==
    IF Len(PartsOf(q.domain)) >= 2 THEN JoinDots(BaseDomain([domain |-> PartsOf(q.domain)]))
    ELSE RStripDots(q.domain)

\* DNSExtractor._get_query_type_name
GetQueryTypeName(query_type) ==
    CASE query_type = 1   -> "A"
      [] query_type = 2   -> "NS"
      [] query_type = 5   -> "CNAME"
      [] query_type = 6   -> "SOA"
      [] query_type = 12  -> "PTR"
      [] query_type = 15  -> "MX"
      [] query_type = 16  -> "TXT"
      [] query_type = 28  -> "AAAA"
      [] query_type = 33  -> "SRV"
      [] query_type = 255 -> "ANY"
      [] OTHER            -> "TYPE" \o ToString(query_type)

\* The nesting of _parse_dns_question calls at which the interpreter raises
\* RecursionError.  Only a chain of pointers that loops reaches it.
RecursionLimit == 4

\* (None, None, original_offset)
NoQuestion(original_offset) ==
    [domain |-> <<>>, query_type |-> <<>>, offset |-> original_offset]

RECURSIVE ParseDnsQuestion(_, _, _)
RECURSIVE ParseName(_, _, _, _)
RECURSIVE ParseName_NoneAsEmpty(_, _, _, _)
\* The while loop with line 213 reading `domain += compressed_domain or ""`:
\* a pointer whose target gave None adds nothing and raises nothing.
ParseName_NoneAsEmpty(dns_data, offset, domain, depth) ==
    IF offset >= Len(dns_data)
    THEN [raised |-> FALSE, domain |-> domain, offset |-> offset]
    ELSE LET length == At(dns_data, offset) IN
         IF length = 0
         THEN [raised |-> FALSE, domain |-> domain, offset |-> offset + 1]
         ELSE IF length >= 192
         THEN IF offset + 1 >= Len(dns_data)
              THEN [raised |-> FALSE, domain |-> domain, offset |-> offset + 1]
              ELSE IF depth + 1 >= RecursionLimit
              THEN [raised |-> TRUE, domain |-> domain, offset |-> offset + 2]
              ELSE LET pointer == (length % 64) * 256 + At(dns_data, offset + 1)
                       target  == ParseDnsQuestion(dns_data, pointer, depth + 1)
                   IN  IF target.domain = <<>>
                       THEN [raised |-> FALSE, domain |-> domain, offset |-> offset + 2]
                       ELSE [raised |-> FALSE, domain |-> domain \o target.domain[1],
                             offset |-> offset + 2]
         ELSE IF offset + 1 + length > Len(dns_data)
              THEN [raised |-> FALSE, domain |-> domain, offset |-> offset + 1]
              ELSE ParseName_NoneAsEmpty(dns_data, offset + 1 + length,
                             (IF domain # <<>> THEN Append(domain, 46) ELSE domain)
                                 \o Decode(Slice(dns_data, offset + 1, offset + 1 + length)),
                             depth)

\* The while loop of _parse_dns_question (lines 199-221) from `offset` with
\* `domain` read so far.  raised: an exception left the loop (a pointer whose
\* target gave None, or RecursionError); the except clause swallows it.
ParseName(dns_data, offset, domain, depth) ==
    IF offset >= Len(dns_data)
    THEN [raised |-> FALSE, domain |-> domain, offset |-> offset]
    ELSE LET length == At(dns_data, offset) IN
         IF length = 0
         THEN [raised |-> FALSE, domain |-> domain, offset |-> offset + 1]
         ELSE IF length >= 192
         THEN IF offset + 1 >= Len(dns_data)
              THEN [raised |-> FALSE, domain |-> domain, offset |-> offset + 1]
              ELSE IF depth + 1 >= RecursionLimit
              THEN [raised |-> TRUE, domain |-> domain, offset |-> offset + 2]
              ELSE LET pointer == (length % 64) * 256 + At(dns_data, offset + 1)
                       target  == ParseDnsQuestion(dns_data, pointer, depth + 1)
                   IN  IF target.domain = <<>>
                       THEN [raised |-> TRUE, domain |-> domain, offset |-> offset + 2]
                       ELSE [raised |-> FALSE, domain |-> domain \o target.domain[1],
                             offset |-> offset + 2]
         ELSE IF offset + 1 + length > Len(dns_data)
              THEN [raised |-> FALSE, domain |-> domain, offset |-> offset + 1]
              ELSE ParseName(dns_data, offset + 1 + length,
                             (IF domain # <<>> THEN Append(domain, 46) ELSE domain)
                                 \o Decode(Slice(dns_data, offset + 1, offset + 1 + length)),
                             depth)

\* DNSExtractor._parse_dns_question: (domain, query_type, new_offset), the
\* first two None (<<>>) when the question cannot be read.
ParseDnsQuestion(dns_data, offset, depth) ==
    LET name == ParseName(dns_data, offset, <<>>, depth) IN
    IF ~name.raised /\ name.offset + 4 <= Len(dns_data)
    THEN [domain |-> <<name.domain>>, query_type |-> <<U16(dns_data, name.offset)>>,
          offset |-> name.offset + 4]
    ELSE NoQuestion(offset)

\* is_query of line 169 with the test left out.
IsQuery_Always(flags) == TRUE

\* Line 169: (flags & 0x8000) == 0.
IsQuery(flags) == flags < 32768

RECURSIVE ParseQuestions(_, _, _, _, _, _)
\* The loop of lines 174-185: the queries of the next `remaining` questions.
ParseQuestions(pkt, dns_data, offset, remaining, src_ip, dst_ip) ==
    IF remaining = 0 THEN <<>>
    ELSE LET q == ParseDnsQuestion(dns_data, offset, 0) IN
         (IF q.domain # <<>> /\ q.domain[1] # <<>>
          THEN << [ domain         |-> NormaliseDomain(q.domain[1]),
                    timestamp      |-> pkt.timestamp,
                    source_ip      |-> src_ip,
                    query_type     |-> GetQueryTypeName(q.query_type[1]),
                    destination_ip |-> dst_ip ] >>
          ELSE <<>>)
         \o ParseQuestions(pkt, dns_data, q.offset, remaining - 1, src_ip, dst_ip)

\* self.stats[counter] += by
Bump(st, counter, by) == [st EXCEPT ![counter] = @ + by]

\* _parse_dns_message with dns_queries raised by the header's question count
\* instead of once per query appended.
ParseDnsMessage_CountQuestions(st, pkt, dns_data, src_ip, dst_ip) ==
    IF Len(dns_data) < 12 THEN [stats |-> st, queries |-> <<>>]
    ELSE LET flags     == U16(dns_data, 2)
             questions == U16(dns_data, 4)
         IN  IF IsQuery(flags) /\ questions > 0
             THEN LET queries == ParseQuestions(pkt, dns_data, 12, questions, src_ip, dst_ip)
                  IN  [stats |-> Bump(st, "dns_queries", questions), queries |-> queries]
             ELSE [stats |-> st, queries |-> <<>>]

\* DNSExtractor._parse_dns_message.  Nothing inside its try block raises for
\* a packet that has a timestamp, so the except clause of lines 187-188 does
\* not run.
ParseDnsMessage(st, pkt, dns_data, src_ip, dst_ip) ==
    IF Len(dns_data) < 12 THEN [stats |-> st, queries |-> <<>>]
    ELSE LET flags     == U16(dns_data, 2)
             questions == U16(dns_data, 4)
         IN  IF IsQuery(flags) /\ questions > 0
             THEN LET queries == ParseQuestions(pkt, dns_data, 12, questions, src_ip, dst_ip)
                  IN  [stats |-> Bump(st, "dns_queries", Len(queries)), queries |-> queries]
             ELSE [stats |-> st, queries |-> <<>>]

\* socket.inet_ntoa: the dotted quad of four bytes.
InetNtoa(b) ==
    ToString(b[1]) \o "." \o ToString(b[2]) \o "." \o ToString(b[3]) \o "." \o ToString(b[4])

\* socket.inet_ntop(AF_INET6, ...): the address, as its eight 16-bit groups.
InetNtop6(b) == [g \in 1..8 |-> b[2 * g - 1] * 256 + b[2 * g]]

\* DNSExtractor._extract_from_udp
ExtractFromUdp(st, pkt, udp_data, src_ip, dst_ip) ==
    IF Len(udp_data) < 8 THEN [stats |-> st, queries |-> <<>>]
    ELSE IF U16(udp_data, 0) = DNS_PORT \/ U16(udp_data, 2) = DNS_PORT
         THEN ParseDnsMessage(Bump(Bump(st, "udp_packets", 1), "dns_packets", 1),
                              pkt, SliceFrom(udp_data, 8), src_ip, dst_ip)
         ELSE [stats |-> Bump(st, "udp_packets", 1), queries |-> <<>>]

\* DNSExtractor._extract_from_tcp: a DNS message over TCP follows a 2-byte
\* length.
ExtractFromTcp(st, pkt, tcp_data, src_ip, dst_ip) ==
    IF Len(tcp_data) < 20 THEN [stats |-> st, queries |-> <<>>]
    ELSE LET data_offset == (At(tcp_data, 12) \div 16) * 4
             st1 == Bump(st, "tcp_packets", 1)
         IN  IF U16(tcp_data, 0) = DNS_PORT \/ U16(tcp_data, 2) = DNS_PORT
             THEN IF Len(tcp_data) > data_offset + 2
                  THEN ParseDnsMessage(Bump(st1, "dns_packets", 1), pkt,
                                       Slice(tcp_data, data_offset + 2,
                                             data_offset + 2 + U16(tcp_data, data_offset)),
                                       src_ip, dst_ip)
                  ELSE [stats |-> Bump(st1, "dns_packets", 1), queries |-> <<>>]
             ELSE [stats |-> st1, queries |-> <<>>]

\* DNSExtractor._extract_from_ipv4
ExtractFromIpv4(st, pkt, ip_data) ==
    IF Len(ip_data) < 20 THEN [stats |-> st, queries |-> <<>>]
    ELSE LET ihl      == (At(ip_data, 0) % 16) * 4
             protocol == At(ip_data, 9)
             src_ip   == InetNtoa(Slice(ip_data, 12, 16))
             dst_ip   == InetNtoa(Slice(ip_data, 16, 20))
             st1      == Bump(st, "ip_packets", 1)
         IN  IF protocol = IPPROTO_UDP
             THEN ExtractFromUdp(st1, pkt, SliceFrom(ip_data, ihl), src_ip, dst_ip)
             ELSE IF protocol = IPPROTO_TCP
             THEN ExtractFromTcp(st1, pkt, SliceFrom(ip_data, ihl), src_ip, dst_ip)
             ELSE [stats |-> st1, queries |-> <<>>]

\* DNSExtractor._extract_from_ipv6
ExtractFromIpv6(st, pkt, ip_data) ==
    IF Len(ip_data) < 40 THEN [stats |-> st, queries |-> <<>>]
    ELSE LET next_header == At(ip_data, 6)
             src_ip      == InetNtop6(Slice(ip_data, 8, 24))
             dst_ip      == InetNtop6(Slice(ip_data, 24, 40))
             st1         == Bump(st, "ip_packets", 1)
         IN  IF next_header = IPPROTO_UDP
             THEN ExtractFromUdp(st1, pkt, SliceFrom(ip_data, 40), src_ip, dst_ip)
             ELSE IF next_header = IPPROTO_TCP
             THEN ExtractFromTcp(st1, pkt, SliceFrom(ip_data, 40), src_ip, dst_ip)
             ELSE [stats |-> st1, queries |-> <<>>]

\* DNSExtractor.extract_dns_from_packet: the counters and the returned list.
\* No step raises for a packet made by PcapParser, so the except clause of
\* lines 62-64 does not run.
ExtractResult(st, pkt) ==
    LET st1 == Bump(st, "total_packets", 1) IN
    IF pkt.link_type # 1 \/ Len(pkt.data) < 14 THEN [stats |-> st1, queries |-> <<>>]
    ELSE IF U16(pkt.data, 12) = ETHERTYPE_IP
         THEN ExtractFromIpv4(st1, pkt, SliceFrom(pkt.data, 14))
         ELSE IF U16(pkt.data, 12) = ETHERTYPE_IPV6
         THEN ExtractFromIpv6(st1, pkt, SliceFrom(pkt.data, 14))
         ELSE [stats |-> st1, queries |-> <<>>]

\* --- the packets fed to the extractor ---

MaxPackets == 2

\* Two bytes of a 16-bit value, network order.
B16(v) == <<v \div 256, v % 256>>

\* Question bodies.  The name "Tun.xyz" sits at offset 12 of its message.
NameTunXyz == <<3, 84, 117, 110, 3, 120, 121, 122, 0>>
TypeClass(query_type) == B16(query_type) \o B16(1)
QuestionBodies ==
    { NameTunXyz \o TypeClass(16),                   \* Tun.xyz TXT
      NameTunXyz \o TypeClass(1)
          \o <<3, 119, 119, 119, 192, 12>> \o TypeClass(28), \* then www + pointer to 12
      <<192, 255>> \o TypeClass(1),                  \* pointer to offset 255
      <<3, 119, 119, 119, 192, 255>> \o TypeClass(1), \* www + pointer to offset 255
      <<192, 12>> \o TypeClass(1),                   \* pointer to itself
      <<1, 97, 192, 12>> \o TypeClass(1),            \* a, then a pointer back to the a
      <<192, 14, 192, 12>> \o TypeClass(1),          \* two pointers, each to the other
      NameTunXyz \o TypeClass(1)
          \o <<192, 25>> \o TypeClass(1),            \* Tun.xyz, then a pointer to itself
      <<63, 97, 98>>,                                \* label longer than the message
      <<0>> \o TypeClass(1),                         \* the root name
      NameTunXyz,                                    \* no type and class
      <<3, 119, 119, 119, 63, 97, 98, 99, 100>>,     \* www, then a label of 63 with 4 bytes left
      <<3, 108, 97, 110, 0>> \o TypeClass(1),        \* lan, a single label
      <<1, 97>> \o NameTunXyz \o TypeClass(1),       \* a.Tun.xyz
      <<1, 97, 3, 84, 117, 110, 3, 120, 121, 122, 1, 46, 0>>
          \o TypeClass(1),                           \* a.Tun.xyz and a label that is a dot
      <<>> }

QueryFlags    == 256
ResponseFlags == 33152

\* A DNS message: id, flags, qdcount, three zero counts, the body.
DnsMessage(flags, qdcount, body) ==
    <<18, 52>> \o B16(flags) \o B16(qdcount) \o <<0, 0, 0, 0, 0, 0>> \o body

DnsMessages ==
    {DnsMessage(f, n, b) : f \in {QueryFlags, ResponseFlags}, n \in 0..2, b \in QuestionBodies}

PlainMessages ==
    {DnsMessage(f, 1, NameTunXyz \o TypeClass(16)) : f \in {QueryFlags, ResponseFlags}}

EthFrame(eth_type, payload) ==
    <<2, 0, 0, 0, 0, 2,  2, 0, 0, 0, 0, 1>> \o B16(eth_type) \o payload
Ipv4Packet(protocol, payload) ==
    <<69, 0, 0, 0,  0, 0, 0, 0,  64, protocol, 0, 0,  10, 0, 0, 1,  8, 8, 8, 8>> \o payload
Ipv6Packet(next_header, payload) ==
    <<96, 0, 0, 0,  0, 0, next_header, 64>>
    \o <<32, 1, 13, 184, 0, 0, 0, 0, 0, 0, 0, 0, 0, 0, 0, 1>>
    \o <<32, 1, 13, 184, 0, 0, 0, 0, 0, 0, 0, 0, 0, 0, 0, 83>> \o payload
UdpDatagram(src_port, dst_port, payload) ==
    B16(src_port) \o B16(dst_port) \o <<0, 0, 0, 0>> \o payload
TcpSegment(src_port, dst_port, payload) ==
    B16(src_port) \o B16(dst_port) \o <<0, 0, 0, 1,  0, 0, 0, 1,  80, 24,  16, 0,  0, 0,  0, 0>>
    \o payload

\* The ways a DNS message travels: UDP or TCP to port 53 over IPv4, UDP over
\* IPv6, and UDP from port 53.
Carriers == {"udp4", "udp6", "tcp4", "udp4_from53"}
Carry(carrier, message) ==
    CASE carrier = "udp4" ->
            EthFrame(ETHERTYPE_IP, Ipv4Packet(IPPROTO_UDP, UdpDatagram(40000, 53, message)))
      [] carrier = "udp4_from53" ->
            EthFrame(ETHERTYPE_IP, Ipv4Packet(IPPROTO_UDP, UdpDatagram(53, 40000, message)))
      [] carrier = "udp6" ->
            EthFrame(ETHERTYPE_IPV6, Ipv6Packet(IPPROTO_UDP, UdpDatagram(40000, 53, message)))
      [] carrier = "tcp4" ->
            EthFrame(ETHERTYPE_IP,
                     Ipv4Packet(IPPROTO_TCP,
                                TcpSegment(40000, 53, B16(Len(message)) \o message)))

\* Frames that carry no DNS message to the parser.
OtherFrames ==
    LET plain == DnsMessage(QueryFlags, 1, NameTunXyz \o TypeClass(16)) IN
    { <<2, 0, 0, 0, 0, 2, 2, 0, 0, 0>>,                                \* short frame
      EthFrame(2054, <<0, 1, 8, 0, 6, 4, 0, 1>>),                      \* ARP
      EthFrame(ETHERTYPE_IP, <<69, 0, 0, 0>>),                         \* short IPv4
      EthFrame(ETHERTYPE_IPV6, <<96, 0, 0, 0, 0, 0, 17, 64>>),         \* short IPv6
      EthFrame(ETHERTYPE_IP, Ipv4Packet(1, <<8, 0, 0, 0>>)),           \* ICMP
      EthFrame(ETHERTYPE_IP, Ipv4Packet(IPPROTO_UDP, <<156, 64, 0, 53>>)), \* short UDP
      EthFrame(ETHERTYPE_IP, Ipv4Packet(IPPROTO_TCP, <<156, 64, 0, 53>>)), \* short TCP
      EthFrame(ETHERTYPE_IP, Ipv4Packet(IPPROTO_UDP, UdpDatagram(40000, 5353, plain))),
      EthFrame(ETHERTYPE_IP, Ipv4Packet(IPPROTO_TCP, TcpSegment(40000, 443, plain))),
      EthFrame(ETHERTYPE_IP, Ipv4Packet(IPPROTO_TCP, TcpSegment(40000, 53, <<>>))),
      EthFrame(ETHERTYPE_IP,
               Ipv4Packet(IPPROTO_UDP, UdpDatagram(40000, 53, <<18, 52, 1, 0>>))) }

\* The packets PcapParser hands over: timestamp, data and link type.
Packets ==
    [ timestamp : {1000}, link_type : {1},
      data : {Carry("udp4", m) : m \in DnsMessages}
             \cup {Carry(c, m) : c \in Carriers, m \in PlainMessages}
             \cup OtherFrames ]
    \cup
    [ timestamp : {1000}, link_type : {101},
      data : {Carry("udp4", m) : m \in PlainMessages} ]

\* DNSExtractor.__init__
DnsInit ==
    /\ stats = [ total_packets |-> 0, ip_packets |-> 0, udp_packets |-> 0, tcp_packets |-> 0,
                 dns_packets |-> 0, dns_queries |-> 0, parse_errors |-> 0 ]
    /\ packet = <<>>
    /\ extracted = <<>>

\* queries = extractor.extract_dns_from_packet(pkt)
ExtractDnsFromPacket(pkt) ==
    /\ stats.total_packets < MaxPackets
    /\ \E r \in {ExtractResult(stats, pkt)} :
          /\ stats' = r.stats
          /\ extracted' = r.queries
    /\ packet' = <<pkt>>

----------------------------------------------------------------------------
(* PCAPParser (src/parsers/pcap_parser.py)                                  *)
(*                                                                         *)
(* A byte order is named as struct names it: ">" big-endian, "<" little-   *)
(* endian.  struct.unpack('I', ...) without a prefix uses the byte order   *)
(* of the machine, host_order.                                             *)

ByteOrders == {"<", ">"}

\* A 32-bit value that may pass 2^31 is kept as its four base-256 digits,
\* most significant first: 0xa1b2c3d4 and 0xd4c3b2a1.
MAGIC_BIG    == <<161, 178, 195, 212>>
MAGIC_LITTLE == <<212, 195, 178, 161>>

\* struct.unpack(order + 'I', data[offset:offset+4])[0], as digits.
Unpack32Digits(data, offset, order) ==
    IF order = ">"
    THEN <<At(data, offset), At(data, offset + 1), At(data, offset + 2), At(data, offset + 3)>>
    ELSE <<At(data, offset + 3), At(data, offset + 2), At(data, offset + 1), At(data, offset)>>

\* struct.unpack(order + 'I', data[offset:offset+4])[0], as a number (the
\* fields the model's files hold stay below 2^31 in either order).
Unpack32(data, offset, order) ==
    LET d == Unpack32Digits(data, offset, order)
    IN  ((d[1] * 256 + d[2]) * 256 + d[3]) * 256 + d[4]

\* file_handle.read(n) at position pos: the bytes read.
FileRead(bytes, pos, n) == Slice(bytes, pos, pos + n)

\* The byte order the magic number selects (lines 34-42), <<>> when the
\* magic is neither value.
EndianOfMagic(header, native) ==
    IF Unpack32Digits(header, 0, native) = MAGIC_BIG THEN <<">">>
    ELSE IF Unpack32Digits(header, 0, native) = MAGIC_LITTLE THEN <<"<">>
    ELSE <<>>

\* Line 83: len(packet_data) < caplen means a truncated record.
DataComplete(packet_data, caplen) == Len(packet_data) >= caplen

\* datetime.fromtimestamp(ts_sec + ts_usec / 1000000.0): whole seconds and
\* microseconds of the instant.
Timestamp(ts_sec, ts_usec) == <<ts_sec + ts_usec \div 1000000, ts_usec % 1000000>>

\* PCAPParser.__init__ and the loop variables before the session.
PcapNew ==
    /\ file_handle = <<>>
    /\ endian = <<>>
    /\ header_parsed = FALSE
    /\ link_type = <<>>
    /\ packet_count = 0
    /\ yielded = <<>>
    /\ session = "new"
    /\ error = <<>>

\* with PCAPParser(f) as parser: __enter__ opens the file and parses the
\* global header.  An exception raised here leaves the with statement
\* without a call of __exit__.
Enter ==
    /\ session = "new"
    /\ LET header == FileRead(pcap_file.bytes, 0, 24)
           order  == IF Len(header) < 24 THEN <<>> ELSE EndianOfMagic(header, host_order)
       IN  /\ file_handle' = <<[closed |-> FALSE, pos |-> Len(header)]>>
           /\ IF Len(header) < 24
              THEN /\ error' = <<"Invalid PCAP file - header too short">>
                   /\ session' = "failed"
                   /\ UNCHANGED <<endian, link_type, header_parsed>>
              ELSE IF order = <<>>
              THEN /\ error' = <<"Invalid PCAP magic number">>
                   /\ session' = "failed"
                   /\ UNCHANGED <<endian, link_type, header_parsed>>
              ELSE /\ endian' = order
                   /\ link_type' = <<Unpack32(header, 20, order[1])>>
                   /\ header_parsed' = TRUE
                   /\ session' = "entered"
                   /\ UNCHANGED error
    /\ UNCHANGED <<host_order, pcap_file, packet_count, yielded>>

\* The for loop asks the parse_packets generator for its next packet:
\* _parse_packet reads a record, and the generator yields it or ends.
NextPacket ==
    /\ session = "entered"
    /\ header_parsed
    /\ LET pos           == file_handle[1].pos
           packet_header == FileRead(pcap_file.bytes, pos, 16)
           caplen        == Unpack32(packet_header, 8, endian[1])
           packet_data   == FileRead(pcap_file.bytes, pos + 16, caplen)
       IN  IF Len(packet_header) < 16
           THEN /\ file_handle' = <<[file_handle[1] EXCEPT !.pos = pos + Len(packet_header)]>>
                /\ session' = "exhausted"
                /\ UNCHANGED <<packet_count, yielded>>
           ELSE /\ file_handle' =
                      <<[file_handle[1] EXCEPT !.pos = pos + 16 + Len(packet_data)]>>
                /\ IF DataComplete(packet_data, caplen)
                   THEN /\ yielded' = Append(yielded,
                               [ timestamp       |-> Timestamp(Unpack32(packet_header, 0, endian[1]),
                                                               Unpack32(packet_header, 4, endian[1])),
                                 captured_length |-> caplen,
                                 original_length |-> Unpack32(packet_header, 12, endian[1]),
                                 data            |-> packet_data,
                                 link_type       |-> link_type[1],
                                 packet_id       |-> packet_count ])
                        /\ packet_count' = packet_count + 1
                        /\ UNCHANGED session
                   ELSE /\ session' = "exhausted"
                        /\ UNCHANGED <<packet_count, yielded>>
    /\ UNCHANGED <<host_order, pcap_file, endian, header_parsed, link_type, error>>

\* The body of the for loop raises on the packet it was given.
ConsumerRaises ==
    /\ session = "entered"
    /\ yielded # <<>>
    /\ session' = "raised"
    /\ error' = <<"consumer">>
    /\ UNCHANGED <<host_order, pcap_file, file_handle, endian, header_parsed, link_type,
                   packet_count, yielded>>

\* PCAPParser.__exit__, called when the with block is left.
Exit ==
    /\ session \in {"exhausted", "raised"}
    /\ file_handle' = IF file_handle # <<>> THEN <<[file_handle[1] EXCEPT !.closed = TRUE]>>
                      ELSE file_handle
    /\ session' = "exited"
    /\ UNCHANGED <<host_order, pcap_file, endian, header_parsed, link_type, packet_count,
                   yielded, error>>

\* --- the capture files and machines ---

\* struct.pack(order + 'I', v) and struct.pack(order + 'H', v), as a writer
\* of capture files uses them.
Pack32(v, order) ==
    IF order = ">"
    THEN <<v \div 16777216, (v \div 65536) % 256, (v \div 256) % 256, v % 256>>
    ELSE <<v % 256, (v \div 256) % 256, (v \div 65536) % 256, v \div 16777216>>
Pack16(v, order) == IF order = ">" THEN <<v \div 256, v % 256>> ELSE <<v % 256, v \div 256>>

\* The 24-byte global header: magic, version 2.4, thiszone, sigfigs, snaplen,
\* network.  magic_order is the order the magic is written in, order that of
\* the other fields; a well-formed file has both the same.
GlobalHeader(magic_order, order, network) ==
    (IF magic_order = ">" THEN MAGIC_BIG ELSE MAGIC_LITTLE)
    \o Pack16(2, order) \o Pack16(4, order)
    \o Pack32(0, order) \o Pack32(0, order) \o Pack32(65535, order) \o Pack32(network, order)

\* One record: ts_sec, ts_usec, caplen, wirelen, data.
RecordBytes(order, data) ==
    Pack32(100, order) \o Pack32(5, order) \o Pack32(Len(data), order)
    \o Pack32(Len(data), order) \o data

RECURSIVE RecordsBytes(_, _)
RecordsBytes(order, records) ==
    IF records = <<>> THEN <<>>
    ELSE RecordBytes(order, Head(records)) \o RecordsBytes(order, Tail(records))

\* The packet data of the records a writer stores.
RecordLists ==
    { <<>>, <<<<170, 187>>>>, <<<<170, 187>>, <<>>>>, <<<<>>, <<170, 187>>, <<1, 2, 3>>>> }

\* Bytes missing at the end of a file that was cut short.
Cuts == {0, 1, 4, 20}

\* A capture file: its bytes, and what its writer stored.
CaptureFile(magic_order, order, records, cut) ==
    LET whole == GlobalHeader(magic_order, order, 1) \o RecordsBytes(order, records)
    IN  [ bytes       |-> SubSeq(whole, 1, Len(whole) - cut),
          magic_order |-> magic_order,
          order       |-> order,
          records     |-> records,
          cut         |-> cut ]

\* Files that are no capture: another magic, 4 bytes only, nothing.
NoCapture(bytes) ==
    [bytes |-> bytes, magic_order |-> "none", order |-> "<", records |-> <<>>, cut |-> 0]

PcapFiles ==
    { CaptureFile(mo, o, rl, c) : mo \in ByteOrders, o \in ByteOrders, rl \in RecordLists,
                                  c \in Cuts }
    \cup { NoCapture(<<10, 13, 13, 10>> \o [i \in 1..24 |-> 0]),
           NoCapture(MAGIC_LITTLE),
           NoCapture(<<>>) }

\* A machine, a file, and a PCAPParser made for the file.
PcapInit ==
    /\ host_order \in ByteOrders
    /\ pcap_file \in PcapFiles
    /\ PcapNew

----------------------------------------------------------------------------
(* StringAnalyzer (src/filters/string_analyzer.py)                          *)
(*                                                                         *)
(* What the analyzer finds in the text of the labels (a common substring,  *)
(* sequential pairs, encoding-like patterns) is an input, `found`: the     *)
(* filter view of a label keeps its length and entropy, not its text.      *)

\* Line 21: the subdomains of the queries, or else the unique subdomains.
AnalyzedSubdomains(item) ==
    LET of_queries == SelectSeq([i \in DOMAIN item.queries |-> Subdomain(item.queries[i])],
                                LAMBDA u : u # <<>>)
    IN  IF of_queries # <<>> THEN of_queries ELSE SeqOfSet(item.unique_subdomains)

RECURSIVE MaxStrLen(_)
\* max(patterns['length_distribution'].keys(), default=0): the longest string.
MaxStrLen(strings) ==
    IF strings = <<>> THEN 0 ELSE Max(StrLen(Head(strings)), MaxStrLen(Tail(strings)))

\* item.scores[key] = score
PutScore(item, key, score) ==
    [item EXCEPT !.scores = [k \in DOMAIN @ \cup {key} |-> IF k = key THEN score ELSE @[k]]]

\* Lines 48-53: the score, from the flags item.string_flags holds.
StringScore(item) ==
    (IF AnyFlagHas(<<"encoding", "like">>, item.string_flags)
        \/ \E i \in DOMAIN item.string_flags :
               \E w \in DOMAIN item.string_flags[i] : item.string_flags[i][w] = "base64"
     THEN -10 ELSE 0)
    + (IF AnyFlagHas(<<"sequential", "generation">>, item.string_flags) THEN -5 ELSE 0)

\* StringAnalyzer.analyze(item): lines 20-54.
StringAnalyze(item, found) ==
    LET candidate_strings == AnalyzedSubdomains(item) \o <<item.base_domain>>
        s1 == IF found.common_substring # <<>>
              THEN AddFlag(item, "string",
                           <<"common", "substring:" \o found.common_substring[1]>>)
              ELSE item
        s2 == IF MaxStrLen(candidate_strings) > 30
              THEN AddFlag(s1, "string", <<"long", "label", "distribution">>)
              ELSE s1
        s3 == IF found.seq_pairs >= 3
              THEN AddFlag(s2, "string",
                           <<"sequential", "generation", "pairs:" \o ToString(found.seq_pairs)>>)
              ELSE s2
        s4 == IF found.enc_flags_count >= 3
              THEN AddFlag(s3, "string", F_encoding_like)
              ELSE s3
    IN  PutScore(s4, "string", StringScore(s4))

\* Outcomes of the text analysis: nothing found; encoding-like patterns;
\* sequential pairs and encoding-like patterns; a common substring with too
\* few pairs and patterns to flag.
StringFindings ==
    { [common_substring |-> <<>>, seq_pairs |-> 0, enc_flags_count |-> 0],
      [common_substring |-> <<>>, seq_pairs |-> 0, enc_flags_count |-> 3],
      [common_substring |-> <<>>, seq_pairs |-> 5, enc_flags_count |-> 4],
      [common_substring |-> <<"xyz">>, seq_pairs |-> 2, enc_flags_count |-> 2] }

----------------------------------------------------------------------------
(* SetAnalyzer (src/filters/set_analyzer.py)                                *)

\* self.min_unique_threshold
MinUniqueThreshold == 10

\* Lines 53-61: the score, from the flags item.set_flags holds.
SetScore(item) ==
    (IF AnyFlagHas(<<"high", "cardinality">>, item.set_flags) THEN -10 ELSE 0)
    + (IF AnyFlagHas(<<"single", "use">>, item.set_flags) THEN -10 ELSE 0)
    + (IF AnyFlagHas(<<"long", "labels">>, item.set_flags) THEN -5 ELSE 0)

\* SetAnalyzer.analyze with line 32 reading `single_ratio >= 0.6`.
SetAnalyze_AtLeastSixty(item, consonant_heavy) ==
    LET subdomains == IF item.unique_subdomains # {} THEN SeqOfSet(item.unique_subdomains)
                      ELSE AnalyzedSubdomains(item)
        total      == IF item.total_queries # 0 THEN item.total_queries ELSE Len(item.queries)
        uniq       == Cardinality(Range(subdomains))
        counted    == Range(SelectSeq([i \in DOMAIN item.queries |-> Subdomain(item.queries[i])],
                                      LAMBDA u : u # <<>>))
        single_use == Cardinality({u \in counted :
                          Cardinality({i \in DOMAIN item.queries :
                                          Subdomain(item.queries[i]) = u}) = 1})
        sum_len    == SumSeq([i \in DOMAIN subdomains |-> StrLen(subdomains[i])])
        s1 == IF total > 0 /\ 10 * uniq > 8 * Max(total, 1) /\ uniq >= MinUniqueThreshold
              THEN AddFlag(item, "set",
                           <<"high", "cardinality", "ratio:" \o Fmt2(uniq, Max(total, 1))>>)
              ELSE item
        s2 == IF counted # {} /\ 10 * single_use >= 6 * Cardinality(counted) /\ single_use >= 5
              THEN AddFlag(s1, "set",
                           <<"single", "use", "subdomains",
                             "ratio:" \o Fmt2(single_use, Cardinality(counted))>>)
              ELSE s1
        s3 == IF subdomains # <<>> /\ sum_len > 20 * Len(subdomains)
              THEN AddFlag(s2, "set",
                           <<"long", "labels", "avg:" \o Fmt1(sum_len, Len(subdomains))>>)
              ELSE s2
        s4 == IF subdomains # <<>> /\ consonant_heavy
              THEN AddFlag(s3, "set", <<"consonant", "heavy", "labels">>)
              ELSE s3
    IN  PutScore(s4, "set", SetScore(s4))

\* SetAnalyzer.analyze(item): lines 16-62.  consonant_heavy tells whether more
\* than half of the subdomains are consonant heavy, a property of their text.
SetAnalyze(item, consonant_heavy) ==
    LET subdomains == IF item.unique_subdomains # {} THEN SeqOfSet(item.unique_subdomains)
                      ELSE AnalyzedSubdomains(item)
        total      == IF item.total_queries # 0 THEN item.total_queries ELSE Len(item.queries)
        uniq       == Cardinality(Range(subdomains))
        counted    == Range(SelectSeq([i \in DOMAIN item.queries |-> Subdomain(item.queries[i])],
                                      LAMBDA u : u # <<>>))
        single_use == Cardinality({u \in counted :
                          Cardinality({i \in DOMAIN item.queries :
                                          Subdomain(item.queries[i]) = u}) = 1})
        sum_len    == SumSeq([i \in DOMAIN subdomains |-> StrLen(subdomains[i])])
        s1 == IF total > 0 /\ 10 * uniq > 8 * Max(total, 1) /\ uniq >= MinUniqueThreshold
              THEN AddFlag(item, "set",
                           <<"high", "cardinality", "ratio:" \o Fmt2(uniq, Max(total, 1))>>)
              ELSE item
        s2 == IF counted # {} /\ 10 * single_use > 6 * Cardinality(counted) /\ single_use >= 5
              THEN AddFlag(s1, "set",
                           <<"single", "use", "subdomains",
                             "ratio:" \o Fmt2(single_use, Cardinality(counted))>>)
              ELSE s1
        s3 == IF subdomains # <<>> /\ sum_len > 20 * Len(subdomains)
              THEN AddFlag(s2, "set",
                           <<"long", "labels", "avg:" \o Fmt1(sum_len, Len(subdomains))>>)
              ELSE s2
        s4 == IF subdomains # <<>> /\ consonant_heavy
              THEN AddFlag(s3, "set", <<"consonant", "heavy", "labels">>)
              ELSE s3
    IN  PutScore(s4, "set", SetScore(s4))

----------------------------------------------------------------------------
(* run_pcap_pipeline (src/pipeline.py)                                      *)
(*                                                                         *)
(* The run is followed from the end of step 1, with `queries` extracted    *)
(* from a capture in which every packet is a UDP/IPv4 DNS query with one   *)
(* question.  The thresholds of the config are the filter's defaults.      *)

\* config["pipeline"] (src/utils/config.py, lines 12-15): the defaults, web
\* checks switched on, and a limit of one domain.
PipelineConfigs ==
    [enable_web_checks : BOOLEAN, max_domains_for_web_checks : {1, 25}]

\* Lines 66-86: the web_profile the web collaborator's answers make.
\* social_presence is never set; content_length only for a reachable site.
PipelineWebProfile(reachable, ssl_info, whois_info, blacklisted) ==
    [ http_accessible   |-> reachable,
      https_accessible  |-> reachable /\ ssl_info,
      valid_ssl         |-> ssl_info,
      name_servers      |-> IF whois_info THEN <<"ns1.example.com", "ns2.example.com">> ELSE <<>>,
      age_days          |-> IF whois_info THEN <<2000>> ELSE <<>>,
      privacy_protected |-> FALSE,
      blacklist         |-> [n \in {"google_safe_browsing", "malware_domain_list"} |->
                                blacklisted /\ n = "malware_domain_list"],
      content_length    |-> IF reachable THEN <<2500>> ELSE <<>>,
      social_presence   |-> <<>> ]

\* Answers of the network: an established site, an unreachable one, and an
\* unreachable one that is blacklisted.
PipelineWebProfiles ==
    { PipelineWebProfile(TRUE, TRUE, TRUE, FALSE),
      PipelineWebProfile(FALSE, FALSE, FALSE, FALSE),
      PipelineWebProfile(FALSE, FALSE, FALSE, TRUE) }

\* Captures, by the queries step 1 extracts from them: none; one query; two
\* example.com queries a second apart; those and ten random-label TXT
\* queries for tun.xyz; thirty random-label TXT queries over five minutes.
\* n TXT queries for tun.xyz that go round `distinct` subdomains.
WrapShape(n, distinct) ==
    [base |-> TunXyz, n |-> n, sub |-> "wrap", distinct |-> distinct, qt |-> "TXT",
     start |-> 0, span |-> 0]

CaptureShapes ==
    { <<>>,
      << [base |-> ExampleCom, n |-> 1, sub |-> "www", qt |-> "mix", start |-> 100, span |-> 0] >>,
      << [base |-> ExampleCom, n |-> 2, sub |-> "www", qt |-> "mix", start |-> 100, span |-> 1] >>,
      << [base |-> ExampleCom, n |-> 2, sub |-> "www", qt |-> "mix", start |-> 100, span |-> 1],
         [base |-> TunXyz, n |-> 10, sub |-> "rnd", qt |-> "TXT", start |-> 400, span |-> 0] >>,
      << [base |-> TunXyz, n |-> 30, sub |-> "rnd", qt |-> "TXT", start |-> 0, span |-> 300] >>,
      << WrapShape(14, 10) >>,            \* 10 subdomains, 6 of them used once
      << WrapShape(13, 10) >>,            \* 10 subdomains, 7 of them used once
      << WrapShape(12, 8) >> }            \* 8 subdomains, 4 of them used once

RECURSIVE QueriesOfShapes(_)
QueriesOfShapes(shapes) ==
    IF shapes = <<>> THEN <<>>
    ELSE BatchFrom(Head(shapes), 0, 1) \o QueriesOfShapes(Tail(shapes))

\* DNSExtractor.stats after step 1 on such a capture (lines 38-41).
StatsAfterCapture(n) ==
    [ total_packets |-> n, ip_packets |-> n, udp_packets |-> n, tcp_packets |-> 0,
      dns_packets |-> n, dns_queries |-> n, parse_errors |-> 0 ]

PipelineIdle ==
    /\ config = <<>>
    /\ capture_queries = <<>>
    /\ stage = "idle"
    /\ cursor = 0
    /\ analyzer_log = <<>>
    /\ web_calls = <<>>
    /\ results = <<>>
    /\ pipeline_report = <<>>

\* Lines 20-41: the components are constructed and step 1 has run.
PipelineInit ==
    /\ config \in PipelineConfigs
    /\ capture_queries \in {QueriesOfShapes(c) : c \in CaptureShapes}
    /\ stage = "filter"
    /\ cursor = 0
    /\ analyzer_log = <<>>
    /\ web_calls = <<>>
    /\ results = <<>>
    /\ pipeline_report = <<>>
    /\ stats = StatsAfterCapture(Len(capture_queries))
    /\ packet = <<>>
    /\ extracted = <<>>
    /\ FilterInit
    /\ IntelIdle

\* The stage after the loop of `this` stage has handled item `at`.
StageAfter(this, next, at, items) == IF at >= Len(items) THEN next ELSE this

\* Step 2, lines 43-45: the statistical filter.
RunStatisticalFilter ==
    /\ stage = "filter"
    /\ ProcessDnsQueries(capture_queries)
    /\ stage' = StageAfter("analyzers", "scoring", 0, newly_suspicious')
    /\ cursor' = 1
    /\ UNCHANGED <<config, capture_queries, analyzer_log, web_calls, results, pipeline_report>>
    /\ UNCHANGED intelVars

\* Step 3, lines 47-50: one turn of the loop, on item `cursor`.  The item is
\* the object the filter keeps in suspicious_domains.
RunAnalyzers ==
    /\ stage = "analyzers"
    /\ \E found \in StringFindings, consonant_heavy \in BOOLEAN :
          LET item == SetAnalyze(StringAnalyze(newly_suspicious[cursor], found), consonant_heavy)
          IN  /\ newly_suspicious' = [newly_suspicious EXCEPT ![cursor] = item]
              /\ suspicious_domains' = [suspicious_domains EXCEPT ![item.base_domain] = item]
    /\ analyzer_log' = Append(analyzer_log, <<"string", "set">>)
    /\ stage' = StageAfter("analyzers", "scoring", cursor, newly_suspicious)
    /\ cursor' = IF cursor >= Len(newly_suspicious) THEN 1 ELSE cursor + 1
    /\ UNCHANGED <<config, capture_queries, web_calls, results, pipeline_report>>
    /\ UNCHANGED <<domain_stats, total_queries_processed, returned_log, batches, filter_call>>
    /\ UNCHANGED intelVars

\* Lines 56-62: the analysis_data of an item, before the web checks.
PipelineAnalysisData(item) ==
    [ statistical_flags |-> item.statistical_flags,
      string_patterns   |-> item.string_flags,
      set_analysis      |-> item.set_flags,
      semantic_analysis |-> item.semantic_flags,
      web_crawl_results |-> <<>>,
      website_history   |-> <<>> ]

\* Whether the web collaborator is invoked for an item (line 65).
WebChecked == config.enable_web_checks

\* Step 4, lines 54-88: one turn of the loop, on item `cursor`.
ScoreItem ==
    /\ stage = "scoring"
    /\ cursor <= Len(newly_suspicious)
    /\ LET item   == newly_suspicious[cursor]
           domain == item.base_domain
       IN  /\ \E web_profile \in PipelineWebProfiles :
                  AnalyzeDomainCall(domain,
                      IF WebChecked
                      THEN [PipelineAnalysisData(item) EXCEPT !.web_crawl_results = <<web_profile>>]
                      ELSE PipelineAnalysisData(item))
           /\ web_calls' = IF WebChecked THEN Append(web_calls, domain) ELSE web_calls
           /\ results' = [d \in DOMAIN results \cup {domain} |->
                             IF d = domain THEN assessment'[1] ELSE results[d]]
    /\ cursor' = cursor + 1
    /\ UNCHANGED <<config, capture_queries, stage, analyzer_log, pipeline_report>>
    /\ UNCHANGED filterVars

\* StatisticalFilter.get_statistics (src/filters/statistical_filter.py, lines
\* 199-208); detection_rate is kept as <<numerator, denominator>>.
FilterStatistics ==
    [ total_queries_processed  |-> total_queries_processed,
      unique_domains_seen      |-> Len(domain_stats),
      suspicious_domains_count |-> Cardinality(DOMAIN suspicious_domains),
      detection_rate           |-> <<Cardinality(DOMAIN suspicious_domains),
                                     Max(Len(domain_stats), 1)>> ]

\* Step 5, lines 90-95: the report, returned with the statistics and results.
FinalReport ==
    /\ stage = "scoring"
    /\ cursor > Len(newly_suspicious)
    /\ GenerateReport
    /\ pipeline_report' =
           << [ report           |-> report'[1],
                extractor_stats  |-> stats,
                filter_stats     |-> FilterStatistics,
                assessments      |-> results ] >>
    /\ stage' = "done"
    /\ UNCHANGED <<config, capture_queries, cursor, analyzer_log, web_calls, results>>
    /\ UNCHANGED filterVars

\* --- step 1, for captures that hold no DNS query ---

\* Captures whose packets, if any, are too short to be Ethernet frames: well
\* formed files of either byte order, whole or cut short; a file of no bytes;
\* and a file with another magic.
QuietCaptures ==
    { CaptureFile(o, o, rl, c) : o \in ByteOrders, rl \in RecordLists, c \in {0, 4} }
    \cup { NoCapture(<<>>), NoCapture(<<10, 13, 13, 10>> \o [i \in 1..24 |-> 0]) }

\* Lines 20-37: the components are constructed; the capture is not yet open.
PipelineStart ==
    /\ config \in PipelineConfigs
    /\ capture_queries = <<>>
    /\ stage = "capture"
    /\ cursor = 0
    /\ analyzer_log = <<>>
    /\ web_calls = <<>>
    /\ results = <<>>
    /\ pipeline_report = <<>>
    /\ host_order \in ByteOrders
    /\ pcap_file \in QuietCaptures
    /\ PcapNew
    /\ DnsInit
    /\ FilterInit
    /\ IntelIdle

\* Line 38: `with PCAPParser(pcap_path) as parser`.  An exception of
\* __enter__ leaves run_pcap_pipeline, which catches nothing.
OpenCapture ==
    /\ stage = "capture"
    /\ Enter
    /\ stage' = IF session' = "failed" THEN "raised" ELSE "capture"
    /\ UNCHANGED <<config, capture_queries, cursor, analyzer_log, web_calls, results,
                   pipeline_report>>
    /\ UNCHANGED <<intelVars, filterVars, dnsVars>>

\* Lines 39-40: one turn of the for loop: the generator is asked for a
\* packet, and the queries extracted from it extend `queries`.
ReadPacket ==
    /\ stage = "capture"
    /\ NextPacket
    /\ IF yielded' # yielded
       THEN LET pkt == yielded'[Len(yielded')]
                r   == ExtractResult(stats, pkt)
            IN  /\ stats' = r.stats
                /\ extracted' = r.queries
                /\ packet' = <<pkt>>
                /\ capture_queries' = capture_queries \o r.queries
       ELSE UNCHANGED <<stats, extracted, packet, capture_queries>>
    /\ UNCHANGED <<config, stage, cursor, analyzer_log, web_calls, results, pipeline_report>>
    /\ UNCHANGED <<intelVars, filterVars>>

\* The with block is left after the generator ended: __exit__ closes the file.
CloseCapture ==
    /\ stage = "capture"
    /\ session = "exhausted"
    /\ Exit
    /\ stage' = "filter"
    /\ UNCHANGED <<config, capture_queries, cursor, analyzer_log, web_calls, results,
                   pipeline_report>>
    /\ UNCHANGED <<intelVars, filterVars, dnsVars>>

----------------------------------------------------------------------------
(* find_common_substring (src/utils/string_operations.py)                   *)
(*                                                                         *)
(* A string is the sequence of its characters.                             *)

Alphabet   == {"a", "b"}
MaxChars   == 2
MaxStrings == 3

\* The strings of at most MaxChars characters, and the lists of at most
\* MaxStrings of them.
Strings     == UNION {[1..n -> Alphabet] : n \in 0..MaxChars}
StringLists == UNION {[1..n -> Strings] : n \in 0..MaxStrings}

\* Python's `substr in string`.
IsSubstr(substr, string) ==
    \E k \in 0..(Len(string) - Len(substr)) : SubSeq(string, k + 1, k + Len(substr)) = substr

RECURSIVE LongestIn(_, _, _, _, _)
\* Lines 44-48: the loops over i and j, at common[i:j], with new_common the
\* best found so far; a later substring replaces it only when longer.
LongestIn(common, string, i, j, new_common) ==
    IF i >= Len(common) THEN new_common
    ELSE IF j > Len(common) THEN LongestIn(common, string, i + 1, i + 2, new_common)
    ELSE LET substr == SubSeq(common, i + 1, j) IN
         LongestIn(common, string, i, j + 1,
                   IF IsSubstr(substr, string) /\ Len(substr) > Len(new_common)
                   THEN substr ELSE new_common)

RECURSIVE NarrowCommon(_, _)
\* Lines 41-52: the loop over strings[1:], with `common` carried along.
NarrowCommon(common, rest) ==
    IF rest = <<>> THEN common
    ELSE LET new_common == LongestIn(common, Head(rest), 0, 1, <<>>) IN
         IF new_common = <<>> THEN new_common
         ELSE NarrowCommon(new_common, Tail(rest))

\* find_common_substring(strings)
FindCommonSubstring(strings) ==
    IF strings = <<>> THEN <<>>
    ELSE IF Len(strings) = 1 THEN strings[1]
    ELSE NarrowCommon(strings[1], Tail(strings))

StringsIdle ==
    /\ string_list = <<>>
    /\ common_substring = <<>>

StringsInit ==
    /\ string_list \in StringLists
    /\ common_substring = <<>>

\* common = find_common_substring(strings)
FindCommonSubstringCall ==
    /\ common_substring = <<>>
    /\ common_substring' = <<FindCommonSubstring(string_list)>>
    /\ UNCHANGED string_list

----------------------------------------------------------------------------
(* RequestQueue (src/utils/stealth_tools.py)                                *)
(*                                                                         *)
(* One thread adds requests, starts the queue and stops it; max_workers    *)
(* daemon threads run worker().  A request is [url, callback], callback    *)
(* telling what the caller's function does: "returns", "raises", or "none" *)
(* when no callback was given.                                             *)

MaxWorkers  == 2
MaxRequests == 2
Callbacks   == {"returns", "raises", "none"}

\* RequestQueue.__init__: not running, nothing queued, no thread.
QueueInit ==
    /\ running = FALSE
    /\ queue = <<>>
    /\ unfinished_tasks = 0
    /\ workers = <<>>
    /\ queue_results = {}
    /\ main = "new"
    /\ requests_added = 0
    /\ taken = <<>>

QueueIdle == QueueInit

UtilIdle == StringsIdle /\ QueueIdle

\* add_request(url, callback): lines 130-138.  queue.put counts the item as
\* an unfinished task.
AddRequest(callback) ==
    /\ main \in {"new", "started"}
    /\ requests_added < MaxRequests
    /\ queue' = Append(queue, [url |-> requests_added + 1, callback |-> callback])
    /\ unfinished_tasks' = unfinished_tasks + 1
    /\ requests_added' = requests_added + 1
    /\ UNCHANGED <<running, workers, queue_results, main, taken>>

\* start(): lines 165-172.
Start ==
    /\ main = "new"
    /\ running' = TRUE
    /\ workers' = [w \in 1..MaxWorkers |-> [pc |-> "while", request |-> <<>>]]
    /\ main' = "started"
    /\ UNCHANGED <<queue, unfinished_tasks, queue_results, requests_added, taken>>

\* stop(), line 176: self.running = False; the thread then stands at
\* queue.join().
StopBegin ==
    /\ main = "started"
    /\ running' = FALSE
    /\ main' = "join"
    /\ UNCHANGED <<queue, unfinished_tasks, workers, queue_results, requests_added, taken>>

\* stop(), line 179: queue.join() returns when no task is unfinished.
QueueJoin ==
    /\ main = "join"
    /\ unfinished_tasks = 0
    /\ main' = "join_workers"
    /\ UNCHANGED <<running, queue, unfinished_tasks, workers, queue_results, requests_added,
                   taken>>

\* stop(), lines 182-183: every worker.join(timeout=5) returns, at the
\* latest on its timeout; stop() returns.
JoinWorkers ==
    /\ main = "join_workers"
    /\ main' = "returned"
    /\ UNCHANGED <<running, queue, unfinished_tasks, workers, queue_results, requests_added,
                   taken>>

WorkerAt(w, pc) == w \in DOMAIN workers /\ workers[w].pc = pc
Goto(w, pc, request) == workers' = [workers EXCEPT ![w] = [pc |-> pc, request |-> request]]

\* worker(), line 142: `while self.running`.
WorkerWhile(w) ==
    /\ WorkerAt(w, "while")
    /\ Goto(w, IF running THEN "get" ELSE "exited", <<>>)
    /\ UNCHANGED <<running, queue, unfinished_tasks, queue_results, main, requests_added, taken>>

\* worker(), line 144: queue.get(timeout=1) hands out the oldest item, or
\* raises queue.Empty, on which the loop goes round (lines 160-161).
WorkerGet(w) ==
    /\ WorkerAt(w, "get")
    /\ IF queue # <<>>
       THEN /\ Goto(w, "callback", <<Head(queue)>>)
            /\ queue' = Tail(queue)
            /\ taken' = Append(taken, Head(queue).url)
       ELSE /\ Goto(w, "while", <<>>)
            /\ UNCHANGED <<queue, taken>>
    /\ UNCHANGED <<running, unfinished_tasks, queue_results, main, requests_added>>

\* worker(), lines 146-156: the delays, then the callback.  An exception of
\* the callback is caught by line 162 and the loop goes round.
WorkerCallback(w) ==
    /\ WorkerAt(w, "callback")
    /\ LET request == workers[w].request[1] IN
       CASE request.callback = "none" ->
               /\ Goto(w, "task_done", workers[w].request)
               /\ UNCHANGED queue_results
         [] request.callback = "returns" ->
               /\ Goto(w, "task_done", workers[w].request)
               /\ queue_results' = queue_results \cup {request.url}
         [] request.callback = "raises" ->
               /\ Goto(w, "while", <<>>)
               /\ UNCHANGED queue_results
    /\ UNCHANGED <<running, queue, unfinished_tasks, main, requests_added, taken>>

\* worker(), line 158: self.queue.task_done().
WorkerTaskDone(w) ==
    /\ WorkerAt(w, "task_done")
    /\ unfinished_tasks' = unfinished_tasks - 1
    /\ Goto(w, "while", <<>>)
    /\ UNCHANGED <<running, queue, queue_results, main, requests_added, taken>>

WorkerStep(w) == WorkerWhile(w) \/ WorkerGet(w) \/ WorkerCallback(w) \/ WorkerTaskDone(w)

----------------------------------------------------------------------------
(* Specifications *)

FlagsIdle  == sd = <<>> /\ flag_call = <<>>
FilterIdle == FilterInit
DnsIdle    == DnsInit
PcapIdle   == host_order = "<" /\ pcap_file = NoCapture(<<>>) /\ PcapNew

\* Intelligence: one analyze_domain call on every input of AnalysisInputs.
InitIntel == IntelInit /\ FlagsIdle /\ FilterIdle /\ DnsIdle /\ PcapIdle /\ PipelineIdle /\ UtilIdle
NextIntel == AnalyzeDomain /\ UNCHANGED <<flagVars, filterVars, dnsVars, pcapVars, pipelineVars, utilVars>>
SpecIntel == InitIntel /\ [][NextIntel]_vars

----------------------------------------------------------------------------
(* Claims about Intelligence.analyze_domain (checked under SpecIntel) *)

Returned     == assessment # <<>>
Result       == assessment[1]
Input        == call.analysis_data
Supplied     == Input.web_crawl_results # <<>>
Profile      == Input.web_crawl_results[1]
InputBlacklisted == Supplied /\ AnyTrue(Profile.blacklist)
InputTxtAndEntropy ==
    /\ \E i \in DOMAIN Input.statistical_flags :
           InStr(<<"txt", "heavy">>, Input.statistical_flags[i])
    /\ \E i \in DOMAIN Input.statistical_flags :
           InStr(<<"high", "entropy">>, Input.statistical_flags[i])
InputOverride == InputBlacklisted \/ InputTxtAndEntropy

\* The rule table of the scoring algorithm: label -> score change.
RuleDelta(label) ==
    CASE label = "domain_age>1y"             -> 15
      [] label = "valid_ssl"                 -> 10
      [] label = "active_site_content"       -> 15
      [] label = "social_presence"           -> 10
      [] label = "normal_dns_patterns"       -> 10
      [] label = "established_ns"            -> 5
      [] label = "contact_info_signals"      -> 5
      [] label = "high_entropy_subdomains"   -> -20
      [] label = "excessive_query_frequency" -> -15
      [] label = "single_use_pattern"        -> -15
      [] label = "no_web_presence"           -> -10
      [] label = "recent_registration"       -> -10
      [] label = "privacy_protected"         -> -5
      [] label = "suspicious_query_types"    -> -10
      [] label = "blacklisted"               -> -30

PositiveLabels ==
    {"domain_age>1y", "valid_ssl", "active_site_content", "social_presence",
     "normal_dns_patterns", "established_ns", "contact_info_signals"}
NegativeLabels ==
    {"high_entropy_subdomains", "excessive_query_frequency", "single_use_pattern",
     "no_web_presence", "recent_registration", "privacy_protected",
     "suspicious_query_types", "blacklisted"}

\* Some flag of the list has the "_"-joined words of key in it.
SomeFlag(key, flags) == \E i \in DOMAIN flags : InStr(key, flags[i])

\* The rule table's conditions, read on the input of the call.  The web rules
\* read the supplied web profile; no profile means no web rule applies.
RuleHolds(label) ==
    CASE label = "domain_age>1y" ->
            Supplied /\ Profile.age_days # <<>> /\ Profile.age_days[1] > 365
      [] label = "valid_ssl" -> Supplied /\ Profile.valid_ssl
      [] label = "active_site_content" ->
            Supplied /\ Profile.content_length # <<>> /\ Profile.content_length[1] > 500
      [] label = "social_presence" ->
            Supplied /\ \E n \in DOMAIN Profile.social_presence : Profile.social_presence[n]
      [] label = "normal_dns_patterns" ->
            \A k \in { <<"high", "frequency">>, <<"high", "entropy">>, <<"single", "use">>,
                       <<"txt", "heavy">>, <<"rapid", "subdomain">>, <<"high", "cardinality">> } :
                ~SomeFlag(k, Input.statistical_flags)
      [] label = "established_ns" -> Supplied /\ Len(Profile.name_servers) >= 2
      [] label = "contact_info_signals" ->
            Supplied /\ Profile.content_length # <<>> /\ Profile.content_length[1] > 1000
      [] label = "high_entropy_subdomains" -> SomeFlag(<<"high", "entropy">>, Input.statistical_flags)
      [] label = "excessive_query_frequency" -> SomeFlag(<<"high", "frequency">>, Input.statistical_flags)
      [] label = "single_use_pattern" ->
            \/ SomeFlag(<<"single", "use", "pattern">>, Input.statistical_flags)
            \/ SomeFlag(<<"single", "use", "subdomains">>, Input.statistical_flags)
            \/ SomeFlag(<<"single", "use", "pattern">>, Input.set_analysis)
            \/ SomeFlag(<<"single", "use", "subdomains">>, Input.set_analysis)
      [] label = "no_web_presence" ->
            Supplied /\ ~Profile.http_accessible /\ ~Profile.https_accessible
      [] label = "recent_registration" ->
            Supplied /\ Profile.age_days # <<>> /\ Profile.age_days[1] < 90
      [] label = "privacy_protected" -> Supplied /\ Profile.privacy_protected
      [] label = "suspicious_query_types" -> SomeFlag(<<"txt", "heavy">>, Input.statistical_flags)
      [] label = "blacklisted" -> InputBlacklisted

Listed(label) ==
    \/ \E i \in DOMAIN Result.evidence.positive_indicators :
           Result.evidence.positive_indicators[i] = label
    \/ \E i \in DOMAIN Result.evidence.negative_indicators :
           Result.evidence.negative_indicators[i] = label

NoLabelTwice(labels) == \A i, j \in DOMAIN labels : labels[i] = labels[j] => i = j

RECURSIVE DeltaSum(_)
DeltaSum(labels) ==
    IF labels = <<>> THEN 0 ELSE RuleDelta(Head(labels)) + DeltaSum(Tail(labels))

\* 50 plus the deltas of the listed labels, clamped to [0,100].
ScoreFromEvidence ==
    LET raw == 50 + DeltaSum(Result.evidence.positive_indicators)
                  + DeltaSum(Result.evidence.negative_indicators)
    IN  IF raw < 0 THEN 0 ELSE IF raw > 100 THEN 100 ELSE raw

\* The score is the clamped sum over the listed labels, and a label is listed,
\* once and in its own list, exactly when its rule holds on the input.
ScoreFollowsRules ==
    /\ Result.legitimacy_score = ScoreFromEvidence
    /\ NoLabelTwice(Result.evidence.positive_indicators \o Result.evidence.negative_indicators)
    /\ Range(Result.evidence.positive_indicators) \subseteq PositiveLabels
    /\ Range(Result.evidence.negative_indicators) \subseteq NegativeLabels
    /\ \A l \in PositiveLabels \cup NegativeLabels : Listed(l) <=> RuleHolds(l)

\* The input of the newco.io scenario: the single flag mixed_query_types_4_types,
\* valid_ssl, content_length 700, age_days 45, privacy_protected; nothing on a
\* blacklist, no social presence, no name servers.  Reachability is left open.
NewcoInput ==
    /\ Input.statistical_flags = <<F_mixed_types>>
    /\ Input.string_patterns = <<>> /\ Input.set_analysis = <<>>
    /\ Input.semantic_analysis = <<>>
    /\ Supplied
    /\ Profile.valid_ssl /\ Profile.content_length = <<700>>
    /\ Profile.age_days = <<45>> /\ Profile.privacy_protected
    /\ ~InputBlacklisted
    /\ Profile.social_presence = <<>> /\ Profile.name_servers = <<>>

\* C1: a blacklist hit, or txt_heavy together with high_entropy among the
\* statistical flags, always gives CONFIRMED_FAKE / BLOCK, whatever the score
\* and the positive indicators.
C1_HardOverride ==
    (Returned /\ InputOverride) =>
        (Result.legitimacy_level = "confirmed_fake" /\ Result.recommendation = "BLOCK")

\* A blacklisted domain whose score alone would have made it LEGITIMATE.
C1_Witness ==
    /\ Returned /\ InputBlacklisted
    /\ Result.legitimacy_score >= 75
    /\ Result.evidence.positive_indicators # <<>>
    /\ Result.legitimacy_level = "confirmed_fake"

\* C2 as stated: the score is 50 plus the deltas of the listed labels, clamped;
\* a label is listed once iff its rule holds; and the newco.io input scores 60.
C2_AsStated ==
    Returned => (ScoreFollowsRules /\ (NewcoInput => Result.legitimacy_score = 60))

\* C2 amended: the score is 50 plus the deltas of the listed labels, clamped; a
\* label is listed once iff its rule holds; the newco.io input scores 70 when the
\* site is reachable over http or https (normal_dns_patterns adds 10) and 60
\* only when it is not (no_web_presence takes the 10 back).
C2_ScoreFollowsRules ==
    Returned =>
        /\ ScoreFollowsRules
        /\ NewcoInput =>
              Result.legitimacy_score =
                  (IF Profile.http_accessible \/ Profile.https_accessible THEN 70 ELSE 60)

\* The demo's newco.io call has returned, with normal_dns_patterns listed.
C2_Witness ==
    /\ Returned /\ NewcoInput
    /\ Profile.http_accessible /\ Profile.https_accessible
    /\ Listed("normal_dns_patterns")
    /\ Result.legitimacy_score = 70

\* The band of reported scores that belongs to a level.
InBand(level, score) ==
    CASE level = "legitimate"     -> score >= 75
      [] level = "suspicious"     -> score >= 60 /\ score <= 74
      [] level = "likely_fake"    -> score >= 40 /\ score <= 59
      [] level = "confirmed_fake" -> score < 40
      [] OTHER                    -> FALSE

FixedPairs ==
    { <<"legitimate", "ALLOW">>, <<"suspicious", "MONITOR">>,
      <<"likely_fake", "INVESTIGATE">>, <<"confirmed_fake", "BLOCK">> }

\* C3 as stated: no returned assessment pairs a level with a reported score
\* outside the level's band, and level and recommendation form a fixed pair.
C3_AsStated ==
    Returned =>
        /\ InBand(Result.legitimacy_level, Result.legitimacy_score)
        /\ <<Result.legitimacy_level, Result.recommendation>> \in FixedPairs

\* C3 amended: an assessment to which no hard override applied has its level in
\* the band of its reported score; level and recommendation always form one of
\* the four fixed pairs.  (Under a hard override CONFIRMED_FAKE goes with any
\* score.)
C3_LevelFollowsScore ==
    Returned =>
        /\ ~InputOverride => InBand(Result.legitimacy_level, Result.legitimacy_score)
        /\ <<Result.legitimacy_level, Result.recommendation>> \in FixedPairs

\* No override, and the score sits on the lower edge of the LEGITIMATE band.
C3_Witness ==
    /\ Returned /\ ~InputOverride
    /\ Result.legitimacy_score = 75
    /\ Result.legitimacy_level = "legitimate" /\ Result.recommendation = "ALLOW"

\* C4: every returned or stored assessment has its score in 0..100 and its
\* confidence in 0..1 (0..100 hundredths).
C4_ScoreAndConfidenceBounded ==
    /\ Returned =>
          /\ Result.legitimacy_score \in 0..100
          /\ Result.confidence \in 0..100
    /\ \A d \in DOMAIN final_assessments :
          /\ final_assessments[d].legitimacy_score \in 0..100
          /\ final_assessments[d].confidence \in 0..100

\* An assessment is stored whose listed deltas sum above 100 and whose six
\* facets were all supplied.
C4_Witness ==
    /\ Returned
    /\ call.domain \in DOMAIN final_assessments
    /\ final_assessments[call.domain] = Result
    /\ 50 + DeltaSum(Result.evidence.positive_indicators)
          + DeltaSum(Result.evidence.negative_indicators) > 100
    /\ Result.legitimacy_score = 100

\* SuspiciousDomain: add_flag calls on a fresh object.
\* A run of analyze_domain and generate_report calls on one Intelligence object.
InitIntelSeq == IntelSeqInit /\ FlagsIdle /\ FilterIdle /\ DnsIdle /\ PcapIdle /\ PipelineIdle /\ UtilIdle
NextIntelSeq ==
    (AnalyzeNext \/ GenerateReport) /\ UNCHANGED <<flagVars, filterVars, dnsVars, pcapVars, pipelineVars, utilVars>>
SpecIntelSeq == InitIntelSeq /\ [][NextIntelSeq]_vars

InitPipeline == PipelineInit /\ FlagsIdle /\ PcapIdle /\ UtilIdle
NextPipeline ==
    (RunStatisticalFilter \/ RunAnalyzers \/ ScoreItem \/ FinalReport)
    /\ UNCHANGED <<flagVars, dnsVars, pcapVars, utilVars>>
SpecPipeline == InitPipeline /\ [][NextPipeline]_vars

\* run_pcap_pipeline from its start, on captures that hold no DNS query: the
\* loops of steps 3 and 4 have no item to run on.
InitPipelineCapture == PipelineStart /\ FlagsIdle /\ UtilIdle
NextPipelineCapture ==
    \/ (OpenCapture \/ ReadPacket \/ CloseCapture) /\ UNCHANGED <<flagVars, utilVars>>
    \/ (RunStatisticalFilter \/ FinalReport)
           /\ UNCHANGED <<flagVars, dnsVars, pcapVars, utilVars>>
SpecPipelineCapture == InitPipelineCapture /\ [][NextPipelineCapture]_vars

\* find_common_substring on one list of strings.
InitStrings ==
    /\ StringsInit /\ QueueIdle
    /\ IntelIdle /\ FlagsIdle /\ FilterIdle /\ DnsIdle /\ PcapIdle /\ PipelineIdle
NextStrings ==
    /\ FindCommonSubstringCall
    /\ UNCHANGED <<intelVars, flagVars, filterVars, dnsVars, pcapVars, pipelineVars, queueVars>>
SpecStrings == InitStrings /\ [][NextStrings]_vars

\* RequestQueue with its worker threads.  Every thread that can take a step
\* is scheduled in the end: the workers, and the stopping thread once
\* queue.join() can return.  Nothing obliges the caller to add or to stop.
InitQueue ==
    /\ QueueInit /\ StringsIdle
    /\ IntelIdle /\ FlagsIdle /\ FilterIdle /\ DnsIdle /\ PcapIdle /\ PipelineIdle
NextQueue ==
    /\ \/ \E callback \in Callbacks : AddRequest(callback)
       \/ Start
       \/ StopBegin
       \/ QueueJoin
       \/ JoinWorkers
       \/ \E w \in 1..MaxWorkers : WorkerStep(w)
    /\ UNCHANGED <<intelVars, flagVars, filterVars, dnsVars, pcapVars, pipelineVars, stringVars>>
SpecQueue == InitQueue /\ [][NextQueue]_vars
SpecQueueFair ==
    /\ SpecQueue
    /\ \A w \in 1..MaxWorkers : WF_queueVars(WorkerStep(w))
    /\ WF_queueVars(QueueJoin)
    /\ WF_queueVars(JoinWorkers)

----------------------------------------------------------------------------
(* Claims about runs of Intelligence calls                                 *)

\* Two assessments equal in level, score, confidence, recommendation and the
\* three evidence lists (in order).
SameVerdict(a, b) ==
    /\ a.legitimacy_level = b.legitimacy_level
    /\ a.legitimacy_score = b.legitimacy_score
    /\ a.confidence = b.confidence
    /\ a.recommendation = b.recommendation
    /\ a.evidence.positive_indicators = b.evidence.positive_indicators
    /\ a.evidence.negative_indicators = b.evidence.negative_indicators
    /\ a.evidence.risk_factors = b.evidence.risk_factors

\* The calls made for a domain, as positions of the log.
CallsFor(domain) == {i \in DOMAIN intel_log : intel_log[i].domain = domain}

\* The assessment the latest call for the domain returned.
LatestReturned(domain) ==
    intel_log[CHOOSE i \in CallsFor(domain) : \A j \in CallsFor(domain) : j <= i].returned

LevelSeq == <<"legitimate", "suspicious", "likely_fake", "confirmed_fake", "unknown">>

\* The stored assessments that carry the negative indicator.
StoredWith(neg) ==
    {d \in DOMAIN final_assessments :
        \E k \in DOMAIN final_assessments[d].evidence.negative_indicators :
            final_assessments[d].evidence.negative_indicators[k] = neg}

\* The domains analysed so far.
AnalysedDomains == {intel_log[i].domain : i \in DOMAIN intel_log}

\* C19: the report generate_report returns after any run of analyze_domain
\* calls has total_domains_analyzed equal to the number of distinct domains
\* analysed and to the sum of the legitimacy_breakdown counts; its
\* high_risk_domains are exactly the domains whose latest assessment is
\* LIKELY_FAKE or CONFIRMED_FAKE; and it carries the high-entropy tuning
\* recommendation exactly when at least 3 stored assessments have the negative
\* indicator high_entropy_subdomains.
C19_ReportMatchesStored ==
    report # <<>> =>
        LET r == report[1] IN
            /\ r.total_domains_analyzed = Cardinality(AnalysedDomains)
            /\ r.total_domains_analyzed =
                   SumSeq([i \in DOMAIN LevelSeq |-> r.legitimacy_breakdown[LevelSeq[i]]])
            /\ DOMAIN r.legitimacy_breakdown = LegitimacyLevel
            /\ {r.high_risk_domains[i] : i \in DOMAIN r.high_risk_domains}
                   = {d \in AnalysedDomains :
                         LatestReturned(d).legitimacy_level \in {"likely_fake", "confirmed_fake"}}
            /\ (\E i \in DOMAIN r.recommendations : r.recommendations[i] = R_entropy)
                   <=> Cardinality(StoredWith("high_entropy_subdomains")) >= 3

\* A report over three domains, all with high-entropy subdomains, one of them
\* likely fake after an earlier legitimate verdict.
C19_Witness ==
    /\ report # <<>>
    /\ report[1].total_domains_analyzed = 3
    /\ Len(report[1].high_risk_domains) = 3
    /\ R_entropy = report[1].recommendations[2]

\* A report after a domain with high-entropy subdomains was analysed again
\* and found legitimate: it is no longer high risk, nor counted for entropy.
C19_WitnessReanalysed ==
    /\ report # <<>>
    /\ Len(intel_log) = 3
    /\ Cardinality(StoredWith("high_entropy_subdomains")) = 1
    /\ \A i \in DOMAIN report[1].recommendations : report[1].recommendations[i] # R_entropy
    /\ \E i \in DOMAIN intel_log :
           /\ intel_log[i].returned.legitimacy_level = "confirmed_fake"
           /\ final_assessments[intel_log[i].domain].legitimacy_level = "legitimate"
           /\ \A k \in DOMAIN report[1].high_risk_domains :
                  report[1].high_risk_domains[k] # intel_log[i].domain

\* The example.com input of the claim: all four flag lists empty, and a web
\* profile with a valid certificate, 2500 bytes of content, 2000 days of age,
\* two name servers and a twitter presence.
IsExampleComInput(data) ==
    /\ data.statistical_flags = <<>> /\ data.string_patterns = <<>>
    /\ data.set_analysis = <<>> /\ data.semantic_analysis = <<>>
    /\ data.web_crawl_results # <<>>
    /\ LET wp == data.web_crawl_results[1] IN
           /\ wp.valid_ssl
           /\ wp.content_length = <<2500>>
           /\ wp.age_days = <<2000>>
           /\ Len(wp.name_servers) = 2
           /\ wp.social_presence # <<>> /\ wp.social_presence["twitter"]

\* k: the input facets (of 6) that are non-empty.
NonEmptyFacets(data) ==
    Cardinality({f \in {"statistical_flags", "string_patterns", "set_analysis",
                        "semantic_analysis", "web_crawl_results", "website_history"} :
                    data[f] # <<>>})

\* The example.com calls of the log.
ExampleComCalls ==
    {i \in DOMAIN intel_log :
        intel_log[i].domain = "example.com" /\ IsExampleComInput(intel_log[i].analysis_data)}

\* C20, as stated: the example.com input gives score 100, LEGITIMATE, ALLOW
\* and confidence 0.50.
C20_AsStated ==
    \A i \in ExampleComCalls :
        LET a == intel_log[i].returned IN
            /\ a.legitimacy_score = 100
            /\ a.legitimacy_level = "legitimate"
            /\ a.recommendation = "ALLOW"
            /\ a.confidence = 50

\* C20, amended: the example.com input gives score 100, LEGITIMATE, ALLOW and
\* confidence min(1.0, 0.2 + 0.15*k) for k the number of non-empty facets: 0.35
\* when the web profile is the only one (the demo's empty website_history),
\* 0.50 when website_history is non-empty too.
C20_ExampleComVerdict ==
    \A i \in ExampleComCalls :
        LET a    == intel_log[i].returned
            data == intel_log[i].analysis_data
        IN  /\ a.legitimacy_score = 100
            /\ a.legitimacy_level = "legitimate"
            /\ a.recommendation = "ALLOW"
            /\ a.confidence = Min(100, 20 + 15 * NonEmptyFacets(data))
            /\ data.website_history = <<>> => a.confidence = 35
            /\ data.website_history # <<>> => a.confidence = 50

\* example.com analysed with the demo's input: confidence 0.35.
C20_Witness ==
    \E i \in ExampleComCalls :
        /\ intel_log[i].analysis_data = ExampleComData
        /\ intel_log[i].returned.legitimacy_score = 100
        /\ intel_log[i].returned.confidence = 35

InitFlags == FlagsInit /\ IntelIdle /\ FilterIdle /\ DnsIdle /\ PcapIdle /\ PipelineIdle /\ UtilIdle
NextFlags ==
    /\ \E category \in CallCategories, flag \in CallFlags : AddFlagCall(category, flag)
    /\ UNCHANGED <<intelVars, filterVars, dnsVars, pcapVars, pipelineVars, utilVars>>
SpecFlags == InitFlags /\ [][NextFlags]_vars

\* StatisticalFilter: up to MaxBatches process_dns_queries calls.
InitFilter == FilterInit /\ IntelIdle /\ FlagsIdle /\ DnsIdle /\ PcapIdle /\ PipelineIdle /\ UtilIdle
NextFilter ==
    /\ batches < MaxBatches
    /\ \E shape \in BatchShapes : ProcessDnsQueries(BatchQueries(shape, domain_stats))
    /\ UNCHANGED <<intelVars, flagVars, dnsVars, pcapVars, pipelineVars, utilVars>>
SpecFilter == InitFilter /\ [][NextFilter]_vars

\* StatisticalFilter: process_dns_queries and clear_old_data calls.
InitFilterClear == FilterInit /\ IntelIdle /\ FlagsIdle /\ DnsIdle /\ PcapIdle /\ PipelineIdle /\ UtilIdle
NextFilterClear ==
    /\ \/ /\ batches < MaxBatches
          /\ \E shape \in ClearShapes : ProcessDnsQueries(BatchQueries(shape, domain_stats))
       \/ \E c \in ClearCalls : ClearOldData(c.now, c.hours)
    /\ UNCHANGED <<intelVars, flagVars, dnsVars, pcapVars, pipelineVars, utilVars>>
SpecFilterClear == InitFilterClear /\ [][NextFilterClear]_vars

\* DNSExtractor: up to MaxPackets extract_dns_from_packet calls.
InitDns == DnsInit /\ IntelIdle /\ FlagsIdle /\ FilterIdle /\ PcapIdle /\ PipelineIdle /\ UtilIdle
NextDns ==
    /\ \E pkt \in Packets : ExtractDnsFromPacket(pkt)
    /\ UNCHANGED <<intelVars, flagVars, filterVars, pcapVars, pipelineVars, utilVars>>
SpecDns == InitDns /\ [][NextDns]_vars

\* PCAPParser: one with/for session over a capture file.
InitPcap == PcapInit /\ IntelIdle /\ FlagsIdle /\ FilterIdle /\ DnsIdle /\ PipelineIdle /\ UtilIdle
NextPcap ==
    /\ (Enter \/ NextPacket \/ ConsumerRaises \/ Exit)
    /\ UNCHANGED <<intelVars, flagVars, filterVars, dnsVars, pipelineVars, utilVars>>
SpecPcap == InitPcap /\ [][NextPcap]_vars

----------------------------------------------------------------------------
(* Claims about SuspiciousDomain.add_flag (checked under SpecFlags) *)

FlagList(s, category) ==
    CASE category = "statistical" -> s.statistical_flags
      [] category = "string"      -> s.string_flags
      [] category = "set"         -> s.set_flags
      [] category = "semantic"    -> s.semantic_flags

\* The call just made appended its flag to the list of category c and left
\* the other three lists as they were.
AppendedTo(c) ==
    /\ FlagList(sd', c) = Append(FlagList(sd, c), flag_call'[1].flag)
    /\ \A o \in FlagCategories \ {c} : FlagList(sd', o) = FlagList(sd, o)

\* C5: add_flag with category statistical, string, set or semantic appends the
\* flag to that category's own list and leaves the other three unchanged; only
\* a category outside the four goes to the statistical list; no call removes
\* a flag.
C5_AsStated ==
    [][ /\ flag_call'[1].category \in FlagCategories => AppendedTo(flag_call'[1].category)
        /\ flag_call'[1].category \notin FlagCategories => AppendedTo("statistical")
        /\ \A c \in FlagCategories :
              /\ Len(FlagList(sd', c)) >= Len(FlagList(sd, c))
              /\ SubSeq(FlagList(sd', c), 1, Len(FlagList(sd, c))) = FlagList(sd, c) ]_flagVars

----------------------------------------------------------------------------
(* Claims about StatisticalFilter (checked under SpecFilter) *)

\* Every SuspiciousDomain the filter has produced: the stored ones and the
\* ones the last call returned.
Produced ==
    {suspicious_domains[b] : b \in DOMAIN suspicious_domains} \cup Range(newly_suspicious)

\* The domain_stats entry of a base domain that has one.
Entry(base_domain) == StatsOf(domain_stats, base_domain)[1]

\* C6: every SuspiciousDomain produced by process_dns_queries, after any
\* sequence of batches, has first_seen <= last_seen, total_queries equal to
\* the number of retained queries, and only queries of its own base domain.
C6_AggregateInvariants ==
    \A s \in Produced :
        /\ s.first_seen <= s.last_seen
        /\ s.total_queries = Len(s.queries)
        /\ \A i \in DOMAIN s.queries : BaseDomain(s.queries[i]) = s.base_domain

\* A produced aggregate of several queries that span some time.
C6_Witness ==
    \E s \in Produced :
        /\ s.first_seen < s.last_seen
        /\ s.total_queries >= 10
        /\ Len(s.queries) = s.total_queries

NoDuplicates(list) ==
    \A i, j \in DOMAIN list : list[i] = list[j] => i = j

\* C7: without clear_old_data, a base domain is returned as newly suspicious
\* only when its aggregate holds at least 2 queries, no base domain is
\* returned by more than one call, and a domain with a single observed query
\* is never emitted.
C7_ReturnedOnceWithTwoQueries ==
    /\ NoDuplicates(returned_log)
    /\ \A s \in Range(newly_suspicious) :
          /\ Len(Entry(s.base_domain).queries) >= 2
          /\ Len(s.queries) >= 2
    /\ \A i \in DOMAIN domain_stats :
          Len(domain_stats[i].queries) = 1 =>
              /\ domain_stats[i].base_domain \notin Range(returned_log)
              /\ domain_stats[i].base_domain \notin DOMAIN suspicious_domains

\* A second call returns nothing although a base domain flagged by the first
\* call received more queries, whose indicators still hold; meanwhile another
\* base domain has a single query.
C7_Witness ==
    /\ batches = 2
    /\ newly_suspicious = <<>>
    /\ returned_log = <<TunXyz>>
    /\ Len(Entry(TunXyz).queries) > Len(suspicious_domains[TunXyz].queries)
    /\ CheckStatisticalIndicators(Entry(TunXyz)) # <<>>

\* A single query of a base domain was observed and nothing was emitted.
SingleQueryNotEmitted ==
    /\ batches = 1
    /\ Len(domain_stats) = 1
    /\ Len(domain_stats[1].queries) = 1
    /\ newly_suspicious = <<>>

\* The table's quantities, read from a domain_stats entry.
TotalOf(st)  == Len(st.queries)
UniqueOf(st) == Cardinality(st.unique_subdomains)
SinglesOf(st) ==
    Cardinality({u \in st.unique_subdomains :
                    \E i \in DOMAIN st.queries :
                        /\ Subdomain(st.queries[i]) = u
                        /\ \A j \in DOMAIN st.queries \ {i} : Subdomain(st.queries[j]) # u})
TxtOf(st)    == Cardinality({i \in DOMAIN st.queries : st.queries[i].query_type = "TXT"})
TypesOf(st)  == Cardinality({st.queries[i].query_type : i \in DOMAIN st.queries})

\* The indicators of the table; window_minutes is WindowSeconds / 60.
Indicators ==
    {"high_frequency", "single_use", "txt_heavy", "mixed_query_types",
     "rapid_subdomain_generation", "high_cardinality"}

TableCondition(ind, st) ==
    CASE ind = "high_frequency" ->
            WindowSeconds(st) > 0 /\ 60 * TotalOf(st) > 10 * WindowSeconds(st)
      [] ind = "single_use" -> SinglesOf(st) > 5
      [] ind = "txt_heavy" -> TotalOf(st) > 10 /\ 10 * TxtOf(st) > 8 * TotalOf(st)
      [] ind = "mixed_query_types" -> TotalOf(st) > 10 /\ TypesOf(st) > 3
      [] ind = "rapid_subdomain_generation" ->
            /\ UniqueOf(st) > 20
            /\ WindowSeconds(st) > 0
            /\ 60 * UniqueOf(st) > 2 * WindowSeconds(st)
      [] ind = "high_cardinality" ->
            TotalOf(st) > 10 /\ 10 * UniqueOf(st) > 8 * TotalOf(st)

\* The first words of an indicator's flag.
FlagPrefix(ind) ==
    CASE ind = "high_frequency" -> <<"high", "frequency">>
      [] ind = "single_use" -> <<"single", "use", "pattern">>
      [] ind = "txt_heavy" -> <<"txt", "heavy">>
      [] ind = "mixed_query_types" -> <<"mixed", "query", "types">>
      [] ind = "rapid_subdomain_generation" -> <<"rapid", "subdomain", "generation">>
      [] ind = "high_cardinality" -> <<"high", "cardinality">>

HasPrefix(flag, prefix) ==
    Len(flag) >= Len(prefix) /\ SubSeq(flag, 1, Len(prefix)) = prefix

\* How many statistical flags of s belong to the indicator.
FlagsFor(s, ind) ==
    Cardinality({i \in DOMAIN s.statistical_flags :
                    HasPrefix(s.statistical_flags[i], FlagPrefix(ind))})

\* 30 distinct subdomains of one base domain, queried via TXT over 5 minutes.
ThirtyTxtOverFiveMinutes(st) ==
    /\ TotalOf(st) = 30
    /\ UniqueOf(st) = 30
    /\ TxtOf(st) = 30
    /\ WindowSeconds(st) = 300

\* C8: the SuspiciousDomain emitted for a candidate holds all queries
\* accumulated for its base domain at emission time and carries exactly one
\* statistical flag per indicator whose table condition holds and none for an
\* indicator whose condition fails; 30 distinct subdomains queried via TXT
\* over 5 minutes yield the txt_heavy, rapid_subdomain_generation and
\* high_cardinality flags.
C8_FlagsMatchTable ==
    \A s \in Range(newly_suspicious) :
        LET st == Entry(s.base_domain) IN
        /\ s.queries = st.queries
        /\ s.string_flags = <<>> /\ s.set_flags = <<>> /\ s.semantic_flags = <<>>
        /\ \A ind \in Indicators :
              FlagsFor(s, ind) = IF TableCondition(ind, st) THEN 1 ELSE 0
        /\ ThirtyTxtOverFiveMinutes(st) =>
              /\ <<"txt", "heavy", "1.00", "ratio">> \in Range(s.statistical_flags)
              /\ <<"rapid", "subdomain", "generation", "6.0", "per", "min">>
                     \in Range(s.statistical_flags)
              /\ <<"high", "cardinality", "1.00", "ratio">> \in Range(s.statistical_flags)

\* The example of the claim is emitted, with a flag of each of the three kinds.
C8_Witness ==
    \E s \in Range(newly_suspicious) :
        /\ ThirtyTxtOverFiveMinutes(Entry(s.base_domain))
        /\ Len(s.queries) = 30
        /\ FlagsFor(s, "txt_heavy") = 1
        /\ FlagsFor(s, "rapid_subdomain_generation") = 1
        /\ FlagsFor(s, "high_cardinality") = 1

\* An emitted aggregate of exactly 10 queries, all TXT: too few for the
\* query-type indicators, flagged for other reasons.
TenTxtEmitted ==
    \E s \in Range(newly_suspicious) :
        /\ Len(s.queries) = 10
        /\ TxtOf(Entry(s.base_domain)) = 10
        /\ FlagsFor(s, "txt_heavy") = 0

----------------------------------------------------------------------------
(* Claims about DNSExtractor (checked under SpecDns) *)

\* The packets that hand a DNS message to _parse_dns_message, with the
\* message they carry.
Carried ==
    {[data |-> Carry(c, m), message |-> m] : c \in Carriers, m \in DnsMessages}

\* The call just made was on a link-type-1 packet carrying cm.message.
JustExtracted(cm) ==
    /\ packet' # <<>>
    /\ packet'[1].link_type = 1
    /\ packet'[1].data = cm.data

\* The header of a message: QR is the top bit of the flags, bytes 2-3;
\* qdcount is bytes 4-5.
QrClear(message) == message[3] < 128
Qdcount(message) == message[5] * 256 + message[6]

\* C9: a DNS message yields DNSQuery records only if its QR bit is clear and
\* qdcount > 0; a message with the response bit set or with qdcount = 0
\* yields no queries and leaves the dns_queries counter unchanged.
C9_QueriesOnlyFromQueries ==
    [][ \A cm \in Carried :
           JustExtracted(cm) =>
              /\ extracted' # <<>> => (QrClear(cm.message) /\ Qdcount(cm.message) > 0)
              /\ (~QrClear(cm.message) \/ Qdcount(cm.message) = 0) =>
                    /\ extracted' = <<>>
                    /\ stats'.dns_queries = stats.dns_queries ]_dnsVars

\* After a query was extracted from one packet, a response carrying a
\* well-formed question went through the parser: nothing was returned and
\* dns_queries stayed at 1.
C9_Witness ==
    /\ packet # <<>>
    /\ packet[1].data = Carry("udp4_from53", DnsMessage(ResponseFlags, 1, NameTunXyz \o TypeClass(16)))
    /\ packet[1].link_type = 1
    /\ extracted = <<>>
    /\ stats.total_packets = 2
    /\ stats.dns_packets = 2
    /\ stats.dns_queries = 1

\* A query message with qdcount = 0 went through the parser and gave nothing.
NoQuestionsNoQueries ==
    /\ packet # <<>>
    /\ packet[1].data = Carry("udp4", DnsMessage(QueryFlags, 0, NameTunXyz \o TypeClass(16)))
    /\ extracted = <<>>
    /\ stats.dns_packets = 1
    /\ stats.dns_queries = 0

RECURSIVE PointerOf(_, _)
\* The compression pointer that the name starting at `offset` runs into, as
\* a one-element list, or <<>> when the name holds none.
PointerOf(message, offset) ==
    IF offset >= Len(message) THEN <<>>
    ELSE IF message[offset + 1] = 0 THEN <<>>
    ELSE IF message[offset + 1] >= 192
         THEN IF offset + 1 < Len(message)
              THEN <<(message[offset + 1] % 64) * 256 + message[offset + 2]>>
              ELSE <<>>
    ELSE IF offset + 1 + message[offset + 1] > Len(message) THEN <<>>
    ELSE PointerOf(message, offset + 1 + message[offset + 1])

\* The first question's name contains a compression pointer whose 14-bit
\* offset lies outside the message.
PointerOutOfBounds(message) ==
    /\ QrClear(message)
    /\ Qdcount(message) > 0
    /\ PointerOf(message, 12) # <<>>
    /\ PointerOf(message, 12)[1] >= Len(message)

\* C10: when a question's name contains a compression pointer whose 14-bit
\* offset lies outside the DNS message, the question is discarded (no
\* DNSQuery is produced for it) and the parse_errors counter is incremented.
C10_AsStated ==
    [][ \A cm \in Carried :
           (JustExtracted(cm) /\ PointerOutOfBounds(cm.message)) =>
              /\ extracted' = <<>>
              /\ stats'.parse_errors > stats.parse_errors ]_dnsVars

\* The half of C10 the code does keep: no DNSQuery comes out of such a
\* question.
PointerQuestionDiscarded ==
    [][ \A cm \in Carried :
           (JustExtracted(cm) /\ PointerOutOfBounds(cm.message)) => extracted' = <<>> ]_dnsVars

\* A question with an out-of-bounds pointer went through the parser and
\* parse_errors is still 0.
PointerSeenNoError ==
    /\ packet # <<>>
    /\ \E cm \in Carried : packet[1].data = cm.data /\ PointerOutOfBounds(cm.message)
    /\ stats.dns_packets >= 1
    /\ stats.parse_errors = 0

RECURSIVE OverlongLabelFrom(_, _)
\* The name starting at `offset` runs, after zero or more complete labels,
\* into a length byte that declares more bytes than remain in the message.
OverlongLabelFrom(message, offset) ==
    IF offset >= Len(message) THEN FALSE
    ELSE IF message[offset + 1] = 0 \/ message[offset + 1] >= 192 THEN FALSE
    ELSE IF offset + 1 + message[offset + 1] > Len(message) THEN TRUE
    ELSE OverlongLabelFrom(message, offset + 1 + message[offset + 1])

\* A query message with one question whose name has such a length byte.
MalformedLength(message) ==
    /\ QrClear(message)
    /\ Qdcount(message) = 1
    /\ OverlongLabelFrom(message, 12)

\* C11: when a label's length byte declares more bytes than remain in the
\* message, the current question is aborted and no DNSQuery is produced for
\* it; no query carrying only the labels parsed before the malformed length
\* is emitted.
C11_AsStated ==
    [][ \A cm \in Carried :
           (JustExtracted(cm) /\ MalformedLength(cm.message)) => extracted' = <<>> ]_dnsVars

\* A question whose first length byte is already too long gives no query.
OverlongFirstLabelNoQuery ==
    /\ packet # <<>>
    /\ packet[1].data = Carry("udp4", DnsMessage(QueryFlags, 1, <<63, 97, 98>>))
    /\ extracted = <<>>
    /\ stats.dns_packets = 1

\* A query that carries only the label read before the malformed length.
PartialNameEmitted ==
    /\ packet # <<>>
    /\ \E cm \in Carried : packet[1].data = cm.data /\ MalformedLength(cm.message)
    /\ Len(extracted) = 1
    /\ extracted[1].domain = <<119, 119, 119, 46>>

\* The labels of a str: its non-empty parts between dots.
LabelCount(str) ==
    Cardinality({i \in DOMAIN SplitDots(str) : SplitDots(str)[i] # <<>>})

\* A domain without its trailing dot.
WithoutTrailingDot(domain) ==
    IF domain # <<>> /\ domain[Len(domain)] = 46 THEN SubSeq(domain, 1, Len(domain) - 1)
    ELSE domain

SingleLabelProduced ==
    \E i \in DOMAIN extracted :
        /\ extracted[i].domain = <<108, 97, 110, 46>>
        /\ BaseDomainStr(extracted[i]) = <<108, 97, 110>>

\* A query whose domain ends in two dots was produced.
TwoTrailingDotsProduced ==
    \E i \in DOMAIN extracted :
        /\ extracted[i].domain = <<97, 46, 116, 117, 110, 46, 120, 121, 122, 46, 46>>
        /\ SubdomainStr(extracted[i]) = <<97>>

----------------------------------------------------------------------------
(* Claims about PCAPParser (checked under SpecPcap) *)

\* The first four bytes of the file (fewer when it is shorter).
FirstFour == SubSeq(pcap_file.bytes, 1, Min(4, Len(pcap_file.bytes)))

\* The file is as a writer makes it: magic and fields in one byte order.
WellFormed == pcap_file.magic_order \in ByteOrders /\ pcap_file.magic_order = pcap_file.order

\* What C13 says of a session that has been entered or has failed to.
MagicSelectsOrder ==
    (session # "new" /\ Len(pcap_file.bytes) >= 24) =>
        /\ FirstFour = <<161, 178, 195, 212>> => (session # "failed" /\ endian = <<">">>)
        /\ FirstFour = <<212, 195, 178, 161>> => (session # "failed" /\ endian = <<"<">>)
        /\ FirstFour \notin {<<161, 178, 195, 212>>, <<212, 195, 178, 161>>} =>
              (session = "failed" /\ error = <<"Invalid PCAP magic number">>)
        /\ (WellFormed /\ session # "failed") =>
              /\ link_type = <<1>>
              /\ \A i \in DOMAIN yielded :
                    yielded[i].captured_length = Len(pcap_file.records[i])

\* C13: first bytes A1 B2 C3 D4 make the remaining header and record fields
\* decode big-endian, D4 C3 B2 A1 little-endian, any other first four bytes
\* fail with an invalid-format error; the selected order decodes the file's
\* own link_type and caplen to the values the writer stored.
C13_AsStated == MagicSelectsOrder

\* On a big-endian machine the parser does what C13 says.
MagicSelectsOrderOnBigEndianHost == host_order = ">" => MagicSelectsOrder

\* A little-endian file on a little-endian machine is read big-endian.
NativeOrderInverts ==
    /\ host_order = "<"
    /\ WellFormed
    /\ FirstFour = <<212, 195, 178, 161>>
    /\ endian = <<">">>
    /\ link_type = <<16777216>>

\* C14: on every exit from the session - a failure raised while entering, an
\* exception raised by the consumer during iteration, normal exhaustion - the
\* capture file handle that was opened is closed.
C14_AsStated ==
    (session \in {"exited", "failed"} /\ file_handle # <<>>) => file_handle[1].closed

\* Every exit through __exit__ does close the handle.
ClosedAfterExit ==
    session = "exited" => (file_handle # <<>> /\ file_handle[1].closed)

\* The consumer raised after a packet and the handle was closed.
ClosedAfterConsumerRaised ==
    /\ session = "exited"
    /\ error = <<"consumer">>
    /\ yielded # <<>>
    /\ file_handle[1].closed

RECURSIVE CompleteRecordsFrom(_, _)
\* The stored records that lie wholly within `room` bytes, up to the first
\* that does not.
CompleteRecordsFrom(records, room) ==
    IF records = <<>> THEN <<>>
    ELSE IF 16 + Len(Head(records)) > room THEN <<>>
    ELSE <<Head(records)>> \o CompleteRecordsFrom(Tail(records), room - 16 - Len(Head(records)))

\* The complete records of the file that precede its first truncated one.
CompleteRecords == CompleteRecordsFrom(pcap_file.records, Len(pcap_file.bytes) - 24)

YieldedData == [i \in DOMAIN yielded |-> yielded[i].data]

\* The generator has ended by itself.
Exhausted == session = "exhausted" \/ (session = "exited" /\ error = <<>>)

\* What C15 says of a well-formed file.
YieldsCompleteRecords ==
    (WellFormed /\ session \notin {"new", "failed"}) =>
        /\ \A i \in DOMAIN yielded : yielded[i].packet_id = i - 1
        /\ Len(yielded) <= Len(CompleteRecords)
        /\ YieldedData = SubSeq(CompleteRecords, 1, Len(yielded))
        /\ Exhausted => YieldedData = CompleteRecords

\* C15: parse_packets yields exactly the complete records that precede the
\* first truncated record, in file order, with packet_id 0, 1, 2, ...
\* consecutive, then ends without raising; nothing after a truncated record
\* is yielded.
C15_AsStated == YieldsCompleteRecords

\* On a big-endian machine the generator does what C15 says.
YieldsCompleteRecordsOnBigEndianHost == host_order = ">" => YieldsCompleteRecords

\* Two records came out of a file whose third record is cut short.
TwoOfThreeYielded ==
    /\ WellFormed
    /\ Len(pcap_file.records) = 3
    /\ pcap_file.cut = 1
    /\ Exhausted
    /\ Len(yielded) = 2
    /\ yielded[2].packet_id = 1

\* A whole well-formed file gave no packet.
NothingYieldedFromWholeFile ==
    /\ host_order = "<"
    /\ WellFormed
    /\ pcap_file.cut = 0
    /\ Len(pcap_file.records) = 1
    /\ Exhausted
    /\ yielded = <<>>

----------------------------------------------------------------------------
(* Claims about run_pcap_pipeline                                          *)

\* The items handed to Intelligence.analyze_domain so far, by position.
Scored ==
    {i \in DOMAIN newly_suspicious : newly_suspicious[i].base_domain \in DOMAIN results}

\* C16, as stated: every SuspiciousDomain the filter emits goes through the
\* String analyzer, then the Set analyzer, then the Semantic analyzer, before
\* it is handed to Intelligence.analyze_domain.
C16_AsStated ==
    \A i \in Scored : analyzer_log[i] = <<"string", "set", "semantic">>

\* Every scored item went through the String and then the Set analyzer.
StringThenSetBeforeScoring ==
    \A i \in Scored :
        /\ i \in DOMAIN analyzer_log
        /\ SubSeq(analyzer_log[i], 1, 2) = <<"string", "set">>

\* An item scored after the String and Set analyzers alone.
ScoredWithoutSemantic ==
    /\ stage = "done"
    /\ \E i \in Scored :
           /\ analyzer_log[i] = <<"string", "set">>
           /\ intel_log[i].domain = newly_suspicious[i].base_domain
           /\ intel_log[i].analysis_data.semantic_analysis = <<>>

\* C17, as stated: with web checks enabled, the domains the web collaborator
\* is invoked for in one run never number more than
\* pipeline.max_domains_for_web_checks.
C17_AsStated ==
    config.enable_web_checks =>
        Cardinality(Range(web_calls)) <= config.max_domains_for_web_checks

\* The web collaborator is invoked only when web checks are enabled, and then
\* once for every item scored.
WebChecksFollowSwitch ==
    /\ ~config.enable_web_checks => web_calls = <<>>
    /\ config.enable_web_checks => Len(web_calls) = Cardinality(Scored)

\* A finished run with a limit of one domain that checked two.
TwoWebChecksOverLimitOne ==
    /\ stage = "done"
    /\ config.enable_web_checks
    /\ config.max_domains_for_web_checks = 1
    /\ web_calls = <<ExampleCom, TunXyz>>

----------------------------------------------------------------------------
(* Claims about StatisticalFilter with clear_old_data (SpecFilterClear)    *)

\* The cutoff of the clear_old_data call that was the last call.
JustCleared == filter_call # <<>> /\ filter_call.op = "clear_old_data"
LastCutoff == CutoffTime(filter_call.now, filter_call.hours)

\* C21, as stated: after clear_old_data no raw aggregate and no stored
\* SuspiciousDomain whose last_seen precedes the cutoff remains, also when
\* queries for an already-flagged domain arrived after it was flagged.
C21_AsStated ==
    JustCleared =>
        /\ \A i \in DOMAIN domain_stats : domain_stats[i].last_seen[1] >= LastCutoff
        /\ \A b \in DOMAIN suspicious_domains : suspicious_domains[b].last_seen >= LastCutoff

\* After clear_old_data no raw aggregate older than the cutoff remains, and a
\* SuspiciousDomain remains exactly when its raw aggregate does.
AggregatesTrimmed ==
    JustCleared =>
        /\ \A i \in DOMAIN domain_stats : domain_stats[i].last_seen[1] >= LastCutoff
        /\ \A b \in DOMAIN suspicious_domains : StatsOf(domain_stats, b) # <<>>

\* clear_old_data removes nothing whose aggregate is at or after the cutoff,
\* and changes nothing it keeps.
ClearKeepsTheRest ==
    [][JustCleared' /\ filter_call' # filter_call =>
        LET cutoff == CutoffTime(filter_call'.now, filter_call'.hours) IN
            /\ domain_stats' = SelectSeq(domain_stats, LAMBDA e : e.last_seen[1] >= cutoff)
            /\ \A b \in DOMAIN suspicious_domains' :
                   suspicious_domains'[b] = suspicious_domains[b]
            /\ \A b \in DOMAIN suspicious_domains :
                   StatsOf(domain_stats, b)[1].last_seen[1] >= cutoff
                       => b \in DOMAIN suspicious_domains']_vars

\* tun.xyz was flagged with last_seen 300 and queried again at 400; the clear
\* with cutoff 350 kept its stored SuspiciousDomain.
StaleSuspiciousDomainKept ==
    /\ JustCleared
    /\ LastCutoff = 350
    /\ TunXyz \in DOMAIN suspicious_domains
    /\ suspicious_domains[TunXyz].last_seen = 300
    /\ Entry(TunXyz).last_seen = <<400>>

\* The queries of a list that belong to a base domain.
QueriesFor(list, base_domain) == SelectSeq(list, LAMBDA q : BaseDomain(q) = base_domain)

\* C23: once a base domain is flagged, the queries later process_dns_queries
\* calls bring for it are added to its raw aggregate, and its stored
\* SuspiciousDomain (queries, total_queries, unique_subdomains, first_seen,
\* last_seen, flags) stays exactly as it was.
C23_FlaggedDomainFrozen ==
    [][(filter_call' # <<>> /\ filter_call'.op = "process_dns_queries"
        /\ batches' = batches + 1) =>
        \A b \in DOMAIN suspicious_domains :
            /\ b \in DOMAIN suspicious_domains'
            /\ suspicious_domains'[b] = suspicious_domains[b]
            /\ StatsOf(domain_stats', b)[1].queries =
                   StatsOf(domain_stats, b)[1].queries \o QueriesFor(filter_call'.queries, b)
            /\ \A i \in DOMAIN newly_suspicious' : newly_suspicious'[i].base_domain # b]_vars

\* tun.xyz was flagged on 30 queries ending at 300; ten more at 400 went to
\* its raw aggregate only.
C23_Witness ==
    /\ filter_call # <<>> /\ filter_call.op = "process_dns_queries"
    /\ Len(QueriesFor(filter_call.queries, TunXyz)) = 10
    /\ TunXyz \in DOMAIN suspicious_domains
    /\ Len(suspicious_domains[TunXyz].queries) = 30
    /\ suspicious_domains[TunXyz].total_queries = 30
    /\ suspicious_domains[TunXyz].last_seen = 300
    /\ Len(Entry(TunXyz).queries) = 40
    /\ Entry(TunXyz).last_seen = <<400>>
    /\ Cardinality(Entry(TunXyz).unique_subdomains) = 40
    /\ Cardinality(suspicious_domains[TunXyz].unique_subdomains) = 30

\* The aggregates _check_statistical_indicators can be called on.
Checkable == {i \in DOMAIN domain_stats : Len(domain_stats[i].queries) >= 2}

\* The flags of an aggregate that report a rate per minute.
RateFlags(st) ==
    SelectSeq(CheckStatisticalIndicators(st),
              LAMBDA f : HasPrefix(f, <<"high", "frequency">>)
                         \/ HasPrefix(f, <<"rapid", "subdomain", "generation">>))

\* C25: on every aggregate with at least 2 queries the check divides only by
\* positive numbers; with all queries at one timestamp no high-frequency or
\* rapid-generation rate is computed; and the entropy, single-use and
\* cardinality ratios have positive denominators (none is computed over zero
\* unique or counted subdomains), also when no query has a subdomain.
C25_NoDivisionByZero ==
    \A i \in Checkable :
        LET st == domain_stats[i] IN
            /\ \A k \in DOMAIN Divisors(st) : Divisors(st)[k] > 0
            /\ WindowSeconds(st) = 0 => RateFlags(st) = <<>>
            /\ st.unique_subdomains = {} =>
                   /\ HighEntropyFlags(st) = <<>>
                   /\ SingleUseFlags(st) = <<>>
                   /\ HighCardinalityFlags(st) = <<>>

\* Twelve queries at one instant, none with a subdomain: the total is
\* divided by, the window and the subdomain counts are not.
C25_Witness ==
    \E i \in Checkable :
        LET st == domain_stats[i] IN
            /\ WindowSeconds(st) = 0
            /\ st.unique_subdomains = {}
            /\ Len(st.queries) >= 12
            /\ Divisors(st) = <<Len(st.queries), Len(st.queries)>>
            /\ CheckStatisticalIndicators(st) = << <<"txt", "heavy", "1.00", "ratio">> >>

\* Ten random-label queries at one instant: ratios over the ten subdomains,
\* no rate.
WindowZeroWithSubdomains ==
    \E i \in Checkable :
        LET st == domain_stats[i] IN
            /\ WindowSeconds(st) = 0
            /\ Cardinality(st.unique_subdomains) = 10
            /\ Divisors(st) = <<10, 10>>
            /\ RateFlags(st) = <<>>

----------------------------------------------------------------------------
(* Claims about run_pcap_pipeline from the capture on (SpecPipelineCapture) *)

\* A capture file with its global header and no packet record.
HeaderOnly ==
    /\ pcap_file.magic_order \in ByteOrders
    /\ pcap_file.records = <<>>
    /\ pcap_file.cut = 0

\* A capture file that holds no packet record: header only, or no bytes at all.
EmptyCapture == HeaderOnly \/ pcap_file.bytes = <<>>

\* The report of a finished run tells of no query, no suspicious domain and
\* no assessment.
ReportsNothing ==
    /\ pipeline_report[1].extractor_stats.dns_queries = 0
    /\ pipeline_report[1].filter_stats.total_queries_processed = 0
    /\ pipeline_report[1].filter_stats.suspicious_domains_count = 0
    /\ pipeline_report[1].report.total_domains_analyzed = 0
    /\ pipeline_report[1].assessments = <<>>

\* C22, as stated: on an empty capture file (one that holds no packet record)
\* run_pcap_pipeline raises nothing, and its report tells of zero extracted
\* queries, zero suspicious domains and an empty assessments mapping.
C22_AsStated ==
    EmptyCapture =>
        /\ stage # "raised"
        /\ stage = "done" => ReportsNothing

\* The same for a file made of a global header alone.
HeaderOnlyCompletes ==
    HeaderOnly =>
        /\ stage # "raised"
        /\ stage = "done" => ReportsNothing

\* The run on a header-only capture has finished.
HeaderOnlyDone ==
    /\ HeaderOnly
    /\ stage = "done"
    /\ ReportsNothing
    /\ file_handle[1].closed

\* The run on a file of no bytes was left by the ValueError of the header.
NoBytesRaised ==
    /\ pcap_file.bytes = <<>>
    /\ stage = "raised"
    /\ error = <<"Invalid PCAP file - header too short">>
    /\ pipeline_report = <<>>

----------------------------------------------------------------------------
(* Claims about names whose compression pointers loop (SpecDns) *)

RECURSIVE Loops(_, _, _)
\* The name starting at `offset` runs into a pointer chain that comes back
\* to a place already visited; `seen` holds the starts visited so far.
Loops(message, offset, seen) ==
    LET p == PointerOf(message, offset) IN
    IF p = <<>> THEN FALSE
    ELSE IF p[1] \in seen THEN TRUE
    ELSE IF p[1] >= Len(message) THEN FALSE
    ELSE Loops(message, p[1], seen \cup {p[1]})

\* The first question of a query message has a name that loops.
CyclicQuestion(message) ==
    /\ QrClear(message)
    /\ Qdcount(message) > 0
    /\ Loops(message, 12, {12})

\* C24: _parse_dns_question returns for every message, also at a name whose
\* compression pointers point at themselves or at each other, and gives no
\* name there; extract_dns_from_packet returns for such a packet (the packet
\* is counted and a list comes back), and no DNSQuery is produced from the
\* cyclic name.
C24_CyclicNameGivesNothing ==
    [][ \A cm \in Carried :
           JustExtracted(cm) =>
              /\ stats'.total_packets = stats.total_packets + 1
              /\ \A o \in 12..(Len(cm.message) - 1) :
                    Loops(cm.message, o, {o}) =>
                        ParseDnsQuestion(cm.message, o, 0) = NoQuestion(o)
              /\ CyclicQuestion(cm.message) =>
                    /\ extracted' = <<>>
                    /\ stats'.dns_queries = stats.dns_queries ]_dnsVars

\* A query whose name is the label a followed by a pointer back to that
\* label went through the parser: the packet was counted as DNS, and nothing
\* was returned.
C24_Witness ==
    /\ packet # <<>>
    /\ packet[1].link_type = 1
    /\ packet[1].data = Carry("udp4", DnsMessage(QueryFlags, 1, <<1, 97, 192, 12>> \o TypeClass(1)))
    /\ CyclicQuestion(DnsMessage(QueryFlags, 1, <<1, 97, 192, 12>> \o TypeClass(1)))
    /\ extracted = <<>>
    /\ stats.dns_packets >= 1
    /\ stats.dns_queries = 0

\* The same for two pointers that point at each other, asked for twice.
MutualPointersGiveNothing ==
    /\ packet # <<>>
    /\ packet[1].data = Carry("udp4", DnsMessage(QueryFlags, 2, <<192, 14, 192, 12>> \o TypeClass(1)))
    /\ CyclicQuestion(DnsMessage(QueryFlags, 2, <<192, 14, 192, 12>> \o TypeClass(1)))
    /\ extracted = <<>>
    /\ stats.parse_errors = 0

\* A message whose first question is sound and whose second is a pointer to
\* itself gave the one query of the first.
SoundThenCyclic ==
    /\ packet # <<>>
    /\ packet[1].data =
          Carry("udp4", DnsMessage(QueryFlags, 2,
                                   NameTunXyz \o TypeClass(1) \o <<192, 25>> \o TypeClass(1)))
    /\ Loops(DnsMessage(QueryFlags, 2, NameTunXyz \o TypeClass(1) \o <<192, 25>> \o TypeClass(1)),
             25, {25})
    /\ Len(extracted) = 1
    /\ stats.dns_queries = 1

----------------------------------------------------------------------------
(* Claims about the extractor's counters (SpecDns) *)

Counters ==
    {"total_packets", "ip_packets", "udp_packets", "tcp_packets", "dns_packets",
     "dns_queries", "parse_errors"}

\* dns_packets <= udp_packets + tcp_packets <= ip_packets <= total_packets
CountersOrdered ==
    /\ stats.dns_packets <= stats.udp_packets + stats.tcp_packets
    /\ stats.udp_packets + stats.tcp_packets <= stats.ip_packets
    /\ stats.ip_packets <= stats.total_packets

\* One call of extract_dns_from_packet counts one packet, counts as many
\* queries as it returns, and lowers no counter.
CallCounted ==
    /\ stats'.total_packets = stats.total_packets + 1
    /\ stats'.dns_queries = stats.dns_queries + Len(extracted')
    /\ \A c \in Counters : stats'[c] >= stats[c]

\* C29: the counters start at zero; every call of extract_dns_from_packet
\* adds one to total_packets and the number of DNSQuery objects it returns to
\* dns_queries, and lowers no counter, so that after any sequence of calls
\* total_packets is the number of calls and dns_queries the number of
\* queries returned; and at all times
\* dns_packets <= udp_packets + tcp_packets <= ip_packets <= total_packets.
C29_CountersConsistent ==
    /\ \A c \in Counters : stats[c] = 0
    /\ [][CallCounted]_dnsVars
    /\ []CountersOrdered

\* Two calls: an ICMP packet, then a UDP query with two questions.  Every
\* inequality of the chain is shown, one of them strict.
C29_Witness ==
    /\ packet # <<>>
    /\ packet[1].data =
          Carry("udp4", DnsMessage(QueryFlags, 2,
                                   NameTunXyz \o TypeClass(1)
                                       \o <<3, 119, 119, 119, 192, 12>> \o TypeClass(28)))
    /\ Len(extracted) = 2
    /\ stats = [ total_packets |-> 2, ip_packets |-> 2, udp_packets |-> 1, tcp_packets |-> 0,
                 dns_packets |-> 1, dns_queries |-> 2, parse_errors |-> 0 ]

\* Two calls that reached no IP layer: total_packets alone has moved.
OnlyTotalCounted ==
    /\ stats.total_packets = 2
    /\ stats.ip_packets = 0
    /\ extracted = <<>>

\* A message with two questions of which one gave a query: dns_queries
\* follows the queries, not the questions.
FewerQueriesThanQuestions ==
    /\ packet # <<>>
    /\ \E cm \in Carried : packet[1].data = cm.data /\ Qdcount(cm.message) = 2
    /\ Len(extracted) = 1
    /\ stats.total_packets = 1
    /\ stats.dns_queries = 1

----------------------------------------------------------------------------
(* Claims about the String and Set analyzers in the pipeline (SpecPipeline) *)

\* The items of the batch that StringAnalyzer.analyze has been run on.
StringAnalysed == {i \in DOMAIN newly_suspicious : "string" \in DOMAIN newly_suspicious[i].scores}

\* The flag was handed to add_flag, whichever list it went to.
Emitted(item, key) ==
    AnyFlagHas(key, item.statistical_flags \o item.string_flags \o item.set_flags
                        \o item.semantic_flags)

\* C26, as stated: after StringAnalyzer.analyze on a SuspiciousDomain the
\* filter produced, scores['string'] is -10 whenever the analyzer emitted
\* encoding_like_patterns, a further -5 whenever it emitted
\* sequential_generation_pairs, and 0 only when it emitted neither.
C26_AsStated ==
    \A i \in StringAnalysed :
        LET item == newly_suspicious[i] IN
        item.scores["string"] =
            (IF Emitted(item, <<"encoding", "like">>) THEN -10 ELSE 0)
            + (IF Emitted(item, <<"sequential", "generation">>) THEN -5 ELSE 0)

\* What the code does: string_flags stays empty and the score is 0.
StringScoreAlwaysZero ==
    \A i \in StringAnalysed :
        /\ newly_suspicious[i].string_flags = <<>>
        /\ newly_suspicious[i].scores["string"] = 0

\* An item on which encoding_like_patterns and sequential_generation_pairs
\* were both emitted, scored 0.
EncodingFlagScoredZero ==
    \E i \in StringAnalysed :
        /\ Emitted(newly_suspicious[i], <<"encoding", "like">>)
        /\ Emitted(newly_suspicious[i], <<"sequential", "generation">>)
        /\ newly_suspicious[i].scores["string"] = 0

\* The items of the batch that SetAnalyzer.analyze has been run on.
SetAnalysed == {i \in DOMAIN newly_suspicious : "set" \in DOMAIN newly_suspicious[i].scores}

\* The distinct non-empty subdomains of an item's queries, and those of them
\* that occur in exactly one query.
DistinctSubdomains(item) ==
    {Subdomain(item.queries[k]) : k \in DOMAIN item.queries} \ {<<>>}
SingleUseSubdomains(item) ==
    {u \in DistinctSubdomains(item) :
        Cardinality({k \in DOMAIN item.queries : Subdomain(item.queries[k]) = u}) = 1}

\* C27, as stated: SetAnalyzer emits single_use_subdomains_ratio exactly when
\* at least 5 distinct subdomains occur exactly once and they are at least
\* 60% of the distinct subdomains, the boundary of exactly 60% included.
C27_AsStated ==
    \A i \in SetAnalysed :
        LET item == newly_suspicious[i] IN
        Emitted(item, <<"single", "use", "subdomains">>)
            <=> /\ Cardinality(SingleUseSubdomains(item)) >= 5
                /\ 10 * Cardinality(SingleUseSubdomains(item))
                       >= 6 * Cardinality(DistinctSubdomains(item))

\* C27, amended: SetAnalyzer emits single_use_subdomains_ratio exactly when
\* at least 5 distinct subdomains occur exactly once and they are more than
\* 60% of the distinct subdomains; at exactly 60% the flag is not emitted.
C27_MoreThanSixtyPercent ==
    \A i \in SetAnalysed :
        LET item == newly_suspicious[i] IN
        Emitted(item, <<"single", "use", "subdomains">>)
            <=> /\ Cardinality(SingleUseSubdomains(item)) >= 5
                /\ 10 * Cardinality(SingleUseSubdomains(item))
                       > 6 * Cardinality(DistinctSubdomains(item))

\* 6 of 10 subdomains are used once, exactly 60%: no flag.
C27_Witness ==
    \E i \in SetAnalysed :
        /\ Cardinality(SingleUseSubdomains(newly_suspicious[i])) = 6
        /\ Cardinality(DistinctSubdomains(newly_suspicious[i])) = 10
        /\ ~Emitted(newly_suspicious[i], <<"single", "use", "subdomains">>)

\* 7 of 10 subdomains are used once: the flag is emitted.
SevenOfTenFlagged ==
    \E i \in SetAnalysed :
        /\ Cardinality(SingleUseSubdomains(newly_suspicious[i])) = 7
        /\ Cardinality(DistinctSubdomains(newly_suspicious[i])) = 10
        /\ Emitted(newly_suspicious[i], <<"single", "use", "subdomains">>)

\* 4 of 8 subdomains are used once: no flag.
FourOfEightNotFlagged ==
    \E i \in SetAnalysed :
        /\ Cardinality(SingleUseSubdomains(newly_suspicious[i])) = 4
        /\ Cardinality(DistinctSubdomains(newly_suspicious[i])) = 8
        /\ ~Emitted(newly_suspicious[i], <<"single", "use", "subdomains">>)

----------------------------------------------------------------------------
(* Claims about find_common_substring (SpecStrings) *)

\* t is a substring of every element of the list.
CommonToAll(t, list) == \A k \in DOMAIN list : IsSubstr(t, list[k])

\* C28, as stated: find_common_substring returns a string that is a
\* substring of every element, and no strictly longer string is a substring
\* of every element; it returns the empty string for an empty list and the
\* element itself for a list of one.
C28_AsStated ==
    common_substring # <<>> =>
        LET r == common_substring[1] IN
        /\ CommonToAll(r, string_list)
        /\ string_list # <<>> =>
              ~ \E t \in Strings : Len(t) > Len(r) /\ CommonToAll(t, string_list)
        /\ string_list = <<>> => r = <<>>
        /\ Len(string_list) = 1 => r = string_list[1]

\* What the code keeps: the result is a substring of every element; for
\* lists of at most two strings it is a longest one; the empty list gives
\* the empty string and a list of one its element.
CommonAndLongestOfTwo ==
    common_substring # <<>> =>
        LET r == common_substring[1] IN
        /\ CommonToAll(r, string_list)
        /\ Len(string_list) \in {1, 2} =>
              ~ \E t \in Strings : Len(t) > Len(r) /\ CommonToAll(t, string_list)
        /\ string_list = <<>> => r = <<>>
        /\ Len(string_list) = 1 => r = string_list[1]

\* ["ab", "ba", "b"]: the first two leave "a", which the third does not
\* hold; the empty string is returned although "b" is in all three.
GreedyMissesCommon ==
    /\ string_list = << <<"a", "b">>, <<"b", "a">>, <<"b">> >>
    /\ common_substring = << <<>> >>
    /\ CommonToAll(<<"b">>, string_list)

\* ["ab", "ab", "ab"] gives "ab".
WholeStringCommon ==
    /\ string_list = << <<"a", "b">>, <<"a", "b">>, <<"a", "b">> >>
    /\ common_substring = << <<"a", "b">> >>

----------------------------------------------------------------------------
(* Claims about RequestQueue (SpecQueueFair) *)

\* C30, as stated: after start(), a call of stop() returns in the end,
\* whatever the number of requests added before it and however the workers
\* interleave: every request is taken once and marked done, also when its
\* callback raises, so that queue.join() inside stop() does not block for
\* ever.
C30_AsStated == (main = "join") ~> (main = "returned")

\* No request is handed out twice.
TakenAtMostOnce ==
    \A i, j \in DOMAIN taken : taken[i] = taken[j] => i = j

\* unfinished_tasks counts the requests added and not yet marked done.
UnfinishedNeverNegative ==
    /\ unfinished_tasks >= Len(queue)
    /\ unfinished_tasks <= requests_added

\* stop() has returned only with every request added marked done.
ReturnedMeansAllDone ==
    main = "returned" => (unfinished_tasks = 0 /\ queue = <<>> /\ Len(taken) = requests_added)

\* stop() returned after two requests were taken and marked done.
StoppedCleanly ==
    /\ main = "returned"
    /\ requests_added = 2
    /\ Len(taken) = 2

\* stop() stands at queue.join(), every worker has left its loop, and a
\* request that no worker took is still in the queue.
StuckNobodyTook ==
    /\ main = "join"
    /\ \A w \in DOMAIN workers : workers[w].pc = "exited"
    /\ queue # <<>>
    /\ unfinished_tasks > 0

\* stop() stands at queue.join(), every worker has left its loop, the queue
\* is empty, and a request whose callback raised was never marked done.
StuckAfterRaise ==
    /\ main = "join"
    /\ \A w \in DOMAIN workers : workers[w].pc = "exited"
    /\ queue = <<>>
    /\ Len(taken) = requests_added
    /\ unfinished_tasks > 0

====
